---- MODULE Spec2Model ----
(***************************************************************************)
(* linksnap: the rate limiter, the retry helper, the auth form's use of    *)
(* the rate limiter and the extractive summarizer, as state machines.      *)
(* Every component has its own specification over the shared variables;    *)
(* the variables of the other components stay at their initial values.     *)
(***************************************************************************)
EXTENDS Integers, Sequences, FiniteSets, TLC

VARIABLES
    now,          \* Date.now(), in milliseconds
    maxAttempts,  \* RateLimiter.maxAttempts
    windowMs,     \* RateLimiter.windowMs
    attempts,     \* RateLimiter.attempts : key -> sequence of timestamps
    rlLast,       \* the last RateLimiter call: its key, time, return value, prior sequence
    recorded,     \* history: every timestamp recordAttempt(key) ever pushed, per key
    callerPc,     \* per caller: "idle", or "allowed" between isAllowed()==true and recordAttempt
    callerKey,    \* per caller: the key it is handling
    raced,        \* some caller saw isAllowed(k)==true while another held an unrecorded true for k
    error,        \* AuthForm: the error state shown in the form
    loading,      \* AuthForm: the loading state (the submit button is disabled while true)
    renderPending,\* AuthForm: a state setter ran and React has not re-rendered yet
    authPc,       \* AuthForm.handleSubmit: "idle", or "awaiting" signIn/signUp
    authCalls,    \* history: signIn/signUp invocations per key
    submits,      \* history: number of form submissions
    formLast,     \* history: the last submission, with what it met and did
    retryPc,      \* withRetry: "idle", "loop", "inFn", "sleeping", "resolved", "rejected"
    maxRetries,   \* withRetry's parameter
    delay,        \* withRetry's parameter
    attempt,      \* withRetry's loop variable
    lastError,    \* withRetry's lastError
    timer,        \* the setTimeout the loop is awaiting, in milliseconds
    retryResult,  \* what the promise returned by withRetry settled with
    fnCalls,      \* history: invocations of fn started
    fnLog,        \* history: how each invocation of fn settled
    inFlight,     \* history: invocations of fn started and not settled
    slept,        \* history: the timeouts that elapsed, in order
    content,      \* generateSummary's argument, as runs of equal character classes
    chunks,       \* history: the number of chunks the content was fetched in
    sumPc,        \* "input" while the content is being fetched, then "done"
    sumResult,    \* what generateSummary(content) returned or threw
    hPc,          \* generate-summary handler: "idle", the await it is suspended at, or "done"
    hReq,         \* the request being served: its method and its body
    hBookmark,    \* the row the select returned
    hSummary,     \* const summary
    hResp,        \* the Response the handler returned: its status and its JSON body
    hCalls,       \* history: the collaborator calls the request made, in order
    hOutcomes,    \* history: what each awaited collaborator call settled with, in order
    hServed,      \* history: the number of requests received
    nodeEnv,      \* process.env.NODE_ENV
    vIn,          \* the value handed to the validators
    vLast,        \* the last validator call: the function, its argument, its result
    vPrev,        \* the validateUrl call whose sanitized value the last call was given
    user,         \* useAuth().user of the hook instance
    store,        \* the bookmarks table: the set of rows
    bookmarks,    \* useBookmarks: the bookmarks state
    addPc,        \* per addBookmark call: "idle", the await it is suspended at, or "done"
    addIn,        \* per addBookmark call: bookmarkData
    addLocal,     \* per addBookmark call: sanitizedUrl, sanitizedTitle and data
    addResult,    \* per addBookmark call: what the call returned
    addLog,       \* history, per addBookmark call: the operations it performed, in order
    pendingRequests, \* RequestDeduplicator.pendingRequests : key -> the request stored, or 0
    requests,     \* history: the requestFn invocations, with their key, stage and outcome
    dedupeCalls,  \* history: the dedupe calls, in order
    listPc,       \* BookmarksList's useBookmarks(): "mounting" while its fetch runs, "mounted"
    listBookmarks,\* BookmarksList's useBookmarks(): the bookmarks state it renders
    delPc,        \* the deleteBookmark call of a BookmarkCard: "idle", its await, or "done"
    delId,        \* the id the call was given
    delResult,    \* what the call returned
    cardBookmarks,\* the BookmarkCard's useBookmarks(): its bookmarks state
    cache,        \* TTLCache.cache : key -> the item { data, expiry }, or NoItem
    ttl,          \* TTLCache.ttl
    cacheSets,    \* history: per key the last set since the last clear
    cacheLast     \* history: the last TTLCache call, its time and what it returned

rlVars == <<now, maxAttempts, windowMs, attempts, rlLast, recorded>>
callerVars == <<callerPc, callerKey, raced>>
formVars == <<error, loading, renderPending, authPc, authCalls, submits, formLast>>
retryVars == <<retryPc, maxRetries, delay, attempt, lastError, timer, retryResult,
               fnCalls, fnLog, inFlight, slept>>
sumVars == <<content, chunks, sumPc, sumResult>>
handlerVars == <<hPc, hReq, hBookmark, hSummary, hResp, hCalls, hOutcomes, hServed>>
valVars == <<nodeEnv, vIn, vLast, vPrev>>
addVars == <<user, store, bookmarks, addPc, addIn, addLocal, addResult, addLog>>
dedupeVars == <<pendingRequests, requests, dedupeCalls>>
listVars == <<listPc, listBookmarks, delPc, delId, delResult, cardBookmarks>>
cacheVars == <<cache, ttl, cacheSets, cacheLast>>
moreVars == <<dedupeVars, listVars, cacheVars>>
extVars == <<handlerVars, valVars, addVars, moreVars>>
vars == <<rlVars, callerVars, formVars, retryVars, sumVars, extVars>>

--------------------------------------------------------------------------
(* Bounds *)

MaxTime == 4        \* the clock runs 0..MaxTime
MaxRecorded == 3    \* recordAttempt calls in one behaviour, all keys together
MaxWindow == 3      \* windowMs is drawn from 2..MaxWindow
MaxLimit == 2       \* maxAttempts is drawn from 1..MaxLimit

MaxSubmits == 7     \* form submissions in one behaviour
MaxRetriesTried == 4 \* withRetry's maxRetries is drawn from -1..MaxRetriesTried
MaxChunks == 4      \* the summarized content is built from at most MaxChunks chunks
TicksPerWindow == 3 \* the form's clock advances by windowMs / TicksPerWindow

Keys == {"a@x.io", "b@x.io"}
Callers == {"c1", "c2"}

--------------------------------------------------------------------------
(* Strings.  A JavaScript string is a TLA+ string; the operators below are
   the String methods the validators and the handler use, character by
   character. *)

Upper == {"A", "B", "C", "D", "E", "F", "G", "H", "I", "J", "K", "L", "M",
          "N", "O", "P", "Q", "R", "S", "T", "U", "V", "W", "X", "Y", "Z"}
Lower == {"a", "b", "c", "d", "e", "f", "g", "h", "i", "j", "k", "l", "m",
          "n", "o", "p", "q", "r", "s", "t", "u", "v", "w", "x", "y", "z"}
Digits == {"0", "1", "2", "3", "4", "5", "6", "7", "8", "9"}
Whitespace == {" ", "\t", "\n", "\r"}
UpperCaseLetters == "ABCDEFGHIJKLMNOPQRSTUVWXYZ"
LowerCaseLetters == "abcdefghijklmnopqrstuvwxyz"

\* s.charAt(i - 1)
CharAt(s, i) == SubSeq(s, i, i)

\* the least and the greatest element of a non-empty set of integers
Least(S) == CHOOSE m \in S : \A x \in S : m <= x
Greatest(S) == -Least({-x : x \in S})

\* the strings of a sequence, joined
RECURSIVE Concat(_)
Concat(q) ==
    IF Len(q) = 0 THEN ""
    ELSE IF Len(q) = 1 THEN q[1]
    ELSE LET m == Len(q) \div 2
         IN Concat(SubSeq(q, 1, m)) \o Concat(SubSeq(q, m + 1, Len(q)))

\* c.repeat(n)
RECURSIVE Repeat(_, _)
Repeat(c, n) ==
    IF n <= 0 THEN ""
    ELSE IF n % 2 = 0 THEN LET h == Repeat(c, n \div 2) IN h \o h
    ELSE c \o Repeat(c, n - 1)

\* s.includes(sub)
Includes(s, sub) ==
    \E i \in 1..(Len(s) - Len(sub) + 1) : SubSeq(s, i, i + Len(sub) - 1) = sub

\* s.startsWith(prefix)
StartsWith(s, prefix) == Len(s) >= Len(prefix) /\ SubSeq(s, 1, Len(prefix)) = prefix

\* s.indexOf(one of the characters of chars) + 1, and Len(s) + 1 when there is none
IndexOfAny(s, chars) ==
    LET at == {i \in 1..Len(s) : CharAt(s, i) \in chars}
    IN IF at = {} THEN Len(s) + 1 ELSE Least(at)

\* s.trim()
trim(s) ==
    LET kept == {i \in 1..Len(s) : CharAt(s, i) \notin Whitespace}
    IN IF kept = {} THEN "" ELSE SubSeq(s, Least(kept), Greatest(kept))

LowerChar(c) ==
    IF c \in Upper
    THEN CharAt(LowerCaseLetters, CHOOSE i \in 1..26 : CharAt(UpperCaseLetters, i) = c)
    ELSE c

\* s.toLowerCase()
toLowerCase(s) == Concat([i \in 1..Len(s) |-> LowerChar(CharAt(s, i))])

--------------------------------------------------------------------------
(* RateLimiter *)

\* the filter predicate of isAllowed, with <= : an attempt exactly windowMs old is kept
KeepAttemptInclusive(t, time, w) == t - time <= w

\* attempts.filter(time => now - time < this.windowMs)
KeepAttempt(t, time, w) == t - time < w

\* isAllowed that never purges
ValidAttemptsNoPurge(atts, t, w) == atts

ValidAttempts(atts, t, w) == SelectSeq(atts, LAMBDA time : KeepAttempt(t, time, w))

\* the limit test with <= : one attempt too many passes
UnderLimitInclusive(valid, m) == Len(valid) <= m

\* validAttempts.length < this.maxAttempts
UnderLimit(valid, m) == Len(valid) < m

DefaultMaxAttempts == 5
DefaultWindowMs == 60000

NoCall == [op |-> "none", key |-> "a@x.io", at |-> 0, ret |-> FALSE, pre |-> <<>>]

\* this.attempts.set(key, validAttempts)
Purged(m, key) == [m EXCEPT ![key] = ValidAttempts(m[key], now, windowMs)]

\* a recordAttempt that refuses once maxAttempts timestamps are stored
PushedUnderLimit(m, key) ==
    IF Len(m[key]) >= maxAttempts THEN m ELSE [m EXCEPT ![key] = Append(@, now)]

\* attempts.push(now); this.attempts.set(key, attempts)
Pushed(m, key) == [m EXCEPT ![key] = Append(@, now)]

\* isAllowed(key): purge, store the purged list, answer
isAllowed(key) ==
    LET valid == ValidAttempts(attempts[key], now, windowMs) IN
    /\ attempts' = Purged(attempts, key)
    /\ rlLast' = [op |-> "isAllowed", key |-> key, at |-> now,
                  ret |-> UnderLimit(valid, maxAttempts), pre |-> attempts[key]]
    /\ UNCHANGED <<now, maxAttempts, windowMs, recorded>>

\* recordAttempt(key): push now
recordAttempt(key) ==
    /\ attempts' = Pushed(attempts, key)
    /\ recorded' = [recorded EXCEPT ![key] = Append(@, now)]
    /\ rlLast' = [op |-> "recordAttempt", key |-> key, at |-> now,
                  ret |-> FALSE, pre |-> attempts[key]]
    /\ UNCHANGED <<now, maxAttempts, windowMs>>

\* time passes
Tick ==
    /\ now < MaxTime
    /\ now' = now + 1
    /\ UNCHANGED <<maxAttempts, windowMs, attempts, rlLast, recorded>>

RLInit ==
    /\ now = 0
    /\ maxAttempts \in 1..MaxLimit
    /\ windowMs \in 2..MaxWindow
    /\ attempts = [k \in Keys |-> <<>>]
    /\ rlLast = NoCall
    /\ recorded = [k \in Keys |-> <<>>]

\* constructor(maxAttempts = 5, windowMs = 60000): the limiter nobody uses yet
RLDefaultInit ==
    /\ now = 0
    /\ maxAttempts = DefaultMaxAttempts
    /\ windowMs = DefaultWindowMs
    /\ attempts = [k \in Keys |-> <<>>]
    /\ rlLast = NoCall
    /\ recorded = [k \in Keys |-> <<>>]

\* history: the number of recordAttempt calls so far
RECURSIVE TotalLen(_, _)
TotalLen(f, S) ==
    IF S = {} THEN 0
    ELSE LET k == CHOOSE x \in S : TRUE IN Len(f[k]) + TotalLen(f, S \ {k})

Recorded == TotalLen(recorded, Keys)

CallerInit ==
    /\ callerPc = [c \in Callers |-> "idle"]
    /\ callerKey = [c \in Callers |-> "a@x.io"]
    /\ raced = FALSE

NoSubmit == [op |-> "none", key |-> "a@x.io", valid |-> FALSE, at |-> 0,
             prior |-> 0, called |-> FALSE]

FormInit ==
    /\ error = ""
    /\ loading = FALSE
    /\ renderPending = FALSE
    /\ authPc = "idle"
    /\ authCalls = [k \in Keys |-> 0]
    /\ submits = 0
    /\ formLast = NoSubmit

NoResult == [kind |-> "pending", v |-> "undefined"]

RetryInit ==
    /\ retryPc = "idle"
    /\ maxRetries = 0
    /\ delay = 0
    /\ attempt = 0
    /\ lastError = "undefined"
    /\ timer = 0
    /\ retryResult = NoResult
    /\ fnCalls = 0
    /\ fnLog = <<>>
    /\ inFlight = 0
    /\ slept = <<>>

NoSummary == [kind |-> "none", text |-> <<>>]

SumInit ==
    /\ content = <<>>
    /\ chunks = 0
    /\ sumPc = "input"
    /\ sumResult = NoSummary

\* JavaScript values: a string, or one of the values that are not strings
Str(s) == [t |-> "string", v |-> s]
Undefined == [t |-> "undefined", v |-> ""]
Null == [t |-> "null", v |-> ""]
Num(n) == [t |-> "number", v |-> n]

NoRequest == [method |-> "none", body |-> [kind |-> "none", bookmarkId |-> Undefined]]
NoRow == [error |-> FALSE, found |-> FALSE, url |-> Undefined]
NoResponse == [status |-> 0, body |-> <<>>]

HandlerInit ==
    /\ hPc = "idle"
    /\ hReq = NoRequest
    /\ hBookmark = NoRow
    /\ hSummary = <<>>
    /\ hResp = NoResponse
    /\ hCalls = <<>>
    /\ hOutcomes = <<>>
    /\ hServed = 0

NoValidation == [fn |-> "none", arg |-> Undefined, maxLength |-> 0,
                 out |-> [isValid |-> FALSE, error |-> Undefined, sanitized |-> Undefined]]

ValInit ==
    /\ nodeEnv = "test"
    /\ vIn = Undefined
    /\ vLast = NoValidation
    /\ vPrev = NoValidation

AddCalls == {"add1", "add2"}
NoInput == [url |-> Undefined, title |-> Undefined]
NoLocal == [sanitizedUrl |-> "", sanitizedTitle |-> "", title |-> "", data |-> Null]
NoReturn == [returned |-> FALSE, data |-> Undefined, error |-> Undefined]

AddInit ==
    /\ user = Str("u1")
    /\ store = {}
    /\ bookmarks = {}
    /\ addPc = [c \in AddCalls |-> "idle"]
    /\ addIn = [c \in AddCalls |-> NoInput]
    /\ addLocal = [c \in AddCalls |-> NoLocal]
    /\ addResult = [c \in AddCalls |-> NoReturn]
    /\ addLog = [c \in AddCalls |-> <<>>]

DedupeKeys == {"k1", "k2"}

DedupeInit ==
    /\ pendingRequests = [k \in DedupeKeys |-> 0]
    /\ requests = <<>>
    /\ dedupeCalls = <<>>

\* the components have mounted: useState([]) and the fetch of useEffect under way
ListInit ==
    /\ listPc = "mounting"
    /\ listBookmarks = {}
    /\ delPc = "idle"
    /\ delId = 0
    /\ delResult = NoReturn
    /\ cardBookmarks = {}

CacheKeys == {"k1", "k2"}
DefaultTtlMs == 5 * 60 * 1000

NoItem == [present |-> FALSE, data |-> Undefined, expiry |-> 0]
NoSet == [done |-> FALSE, value |-> Undefined, at |-> 0]
NoCacheCall == [op |-> "none", key |-> "", at |-> 0, ret |-> Undefined, has |-> FALSE, size |-> 0]

\* new TTLCache(): an empty Map
EmptyCache ==
    /\ cache = [k \in CacheKeys |-> NoItem]
    /\ cacheSets = [k \in CacheKeys |-> NoSet]
    /\ cacheLast = NoCacheCall

CacheInit == EmptyCache /\ ttl = DefaultTtlMs

MoreInit == DedupeInit /\ ListInit /\ CacheInit

ExtInit == HandlerInit /\ ValInit /\ AddInit /\ MoreInit

Init == RLInit /\ CallerInit /\ FormInit /\ RetryInit /\ SumInit /\ ExtInit

CallIsAllowed == \E k \in Keys : isAllowed(k) /\ UNCHANGED <<callerVars, formVars, retryVars, sumVars, extVars>>
CallRecordAttempt ==
    \E k \in Keys :
        /\ Recorded < MaxRecorded
        /\ recordAttempt(k)
        /\ UNCHANGED <<callerVars, formVars, retryVars, sumVars, extVars>>
ClockTick == Tick /\ UNCHANGED <<callerVars, formVars, retryVars, sumVars, extVars>>

Next == CallIsAllowed \/ CallRecordAttempt \/ ClockTick

\* the RateLimiter driven through its two methods in any order
Spec == Init /\ [][Next]_vars

--------------------------------------------------------------------------
(* Callers that follow the protocol of AuthForm.handleSubmit: isAllowed(key)
   first, recordAttempt(key) only after it answered true.  Several callers
   share one limiter and their steps interleave. *)

\* if (!rateLimiter.isAllowed(userKey)) { ...; return; }
CallerCheck(c, k) ==
    /\ callerPc[c] = "idle"
    /\ isAllowed(k)
    /\ callerKey' = [callerKey EXCEPT ![c] = k]
    /\ IF rlLast'.ret
       THEN /\ callerPc' = [callerPc EXCEPT ![c] = "allowed"]
            /\ raced' = (raced \/ \E d \in Callers \ {c} :
                                     callerPc[d] = "allowed" /\ callerKey[d] = k)
       ELSE UNCHANGED <<callerPc, raced>>
    /\ UNCHANGED <<formVars, retryVars, sumVars, extVars>>

\* rateLimiter.recordAttempt(userKey)
CallerRecord(c) ==
    /\ callerPc[c] = "allowed"
    /\ Recorded < MaxRecorded
    /\ recordAttempt(callerKey[c])
    /\ callerPc' = [callerPc EXCEPT ![c] = "idle"]
    /\ UNCHANGED <<callerKey, raced, formVars, retryVars, sumVars, extVars>>

CallerChecks == \E c \in Callers, k \in Keys : CallerCheck(c, k)
CallerRecords == \E c \in Callers : CallerRecord(c)

NextCallers == CallerChecks \/ CallerRecords \/ ClockTick

SpecCallers == Init /\ [][NextCallers]_vars

--------------------------------------------------------------------------
(* AuthForm: the component body runs on every render, and
   `const rateLimiter = new RateLimiter(5, 60000)` is a statement of that body.
   The variables maxAttempts, windowMs and attempts are here the limiter that
   the current render's handleSubmit closes over. *)

RateLimitAttempts == 5
RateLimitWindowMs == 60000

Emails == {"A@x.io", "a@x.io", "b@x.io"}

TooManyAttempts == "Too many attempts. Please try again in a minute."

AuthInvalidCredentials == "Invalid email or password"
UnknownError == "An unexpected error occurred"

\* the error values of the collaborator: no error, the AuthApiError of
\* supabase-js for wrong credentials, and the plain object of AuthForm.test.tsx
NoAuthError == [kind |-> "null", message |-> "", status |-> "", name |-> ""]
AuthApiError ==
    [kind |-> "Error", message |-> "Invalid login credentials", status |-> "400",
     name |-> "AuthApiError"]
MockedError == [kind |-> "object", message |-> "Invalid credentials", status |-> "", name |-> ""]

\* getErrorMessage(error)
getErrorMessage(e) ==
    IF e.kind = "BookmarkError" THEN e.message
    ELSE IF e.kind = "Error"
    THEN IF Includes(e.message, "Invalid login credentials") THEN AuthInvalidCredentials
         ELSE IF Includes(e.message, "User already registered")
         THEN "An account with this email already exists"
         ELSE IF Includes(e.message, "Password should be at least") THEN "Password is too weak"
         ELSE IF Includes(e.message, "JWT expired")
         THEN "Your session has expired. Please sign in again"
         ELSE IF Includes(e.message, "fetch") THEN "Network error. Please check your connection"
         ELSE IF Includes(e.message, "timeout") THEN "Request timed out. Please try again"
         ELSE e.message
    ELSE IF e.kind = "string" THEN e.message
    ELSE UnknownError

Resolves(e, data) == [settled |-> "resolved", error |-> e, data |-> data]
Throws(e) == [settled |-> "rejected", error |-> e, data |-> "nothing"]

\* what the awaited signIn/signUp can do: resolve with a session, resolve with
\* neither session nor user, resolve with an error (the mock of the test), or
\* throw (useAuth rethrows the collaborator's error)
AuthFailures == {Resolves(AuthApiError, "nothing"), Resolves(MockedError, "nothing"),
                 Throws(AuthApiError)}
AuthOutcomes == {Resolves(NoAuthError, "session"), Resolves(NoAuthError, "nothing")}
                    \cup AuthFailures

\* what handleSubmit hands to setError after the await, error unchanged when nothing
ShownError(outcome, shown) ==
    IF outcome.settled = "rejected" THEN "Unexpected error: " \o outcome.error.message
    ELSE IF outcome.error # NoAuthError
    THEN getErrorMessage(outcome.error) \o "\nStatus: " \o outcome.error.status
             \o "\nName: " \o outcome.error.name
    ELSE IF outcome.data = "nothing"
    THEN "No session or user returned. Check Supabase Auth settings."
    ELSE shown

\* const rateLimiter = new RateLimiter(5, 60000), evaluated by the render
RenderedLimiter == [k \in Keys |-> <<>>]

\* React re-renders the component after a state setter ran
AuthRender ==
    /\ renderPending
    /\ renderPending' = FALSE
    /\ attempts' = RenderedLimiter
    /\ maxAttempts' = RateLimitAttempts
    /\ windowMs' = RateLimitWindowMs
    /\ UNCHANGED <<now, rlLast, recorded, callerVars, retryVars, sumVars, extVars,
                   error, loading, authPc, authCalls, submits, formLast>>

\* handleSubmit up to its first await.  formOk is validateForm()'s answer.
\* The button is disabled while loading, and React flushes the updates of one
\* event before it dispatches the next.
AuthSubmit(e, formOk) ==
    LET key == toLowerCase(e)
        valid == ValidAttempts(attempts[key], now, windowMs)
        allowed == UnderLimit(valid, maxAttempts)
        prior == Cardinality({i \in 1..Len(recorded[key]) :
                                 now - recorded[key][i] < RateLimitWindowMs})
    IN
    /\ authPc = "idle" /\ ~loading /\ ~renderPending
    /\ submits < MaxSubmits
    /\ submits' = submits + 1
    /\ renderPending' = TRUE
    /\ UNCHANGED <<now, maxAttempts, windowMs, callerVars, retryVars, sumVars, extVars>>
    /\ IF ~formOk
       THEN /\ formLast' = [op |-> "submit", key |-> key, valid |-> FALSE,
                            at |-> now, prior |-> prior, called |-> FALSE]
            /\ UNCHANGED <<attempts, rlLast, recorded, error, loading, authPc, authCalls>>
       ELSE IF ~allowed
       THEN /\ attempts' = Purged(attempts, key)
            /\ rlLast' = [op |-> "isAllowed", key |-> key, at |-> now,
                          ret |-> FALSE, pre |-> attempts[key]]
            /\ error' = TooManyAttempts
            /\ formLast' = [op |-> "submit", key |-> key, valid |-> TRUE,
                            at |-> now, prior |-> prior, called |-> FALSE]
            /\ UNCHANGED <<recorded, loading, authPc, authCalls>>
       ELSE /\ attempts' = Pushed(Purged(attempts, key), key)
            /\ recorded' = [recorded EXCEPT ![key] = Append(@, now)]
            /\ rlLast' = [op |-> "recordAttempt", key |-> key, at |-> now,
                          ret |-> FALSE, pre |-> valid]
            /\ error' = ""
            /\ loading' = TRUE
            /\ authPc' = "awaiting"
            /\ authCalls' = [authCalls EXCEPT ![key] = @ + 1]
            /\ formLast' = [op |-> "submit", key |-> key, valid |-> TRUE,
                            at |-> now, prior |-> prior, called |-> TRUE]

\* handleSubmit after the await: the result branches, the catch and the finally
AuthSettle(outcome) ==
    /\ authPc = "awaiting"
    /\ authPc' = "idle"
    /\ error' = ShownError(outcome, error)
    /\ loading' = FALSE
    /\ renderPending' = TRUE
    /\ UNCHANGED <<rlVars, callerVars, retryVars, sumVars, extVars, authCalls, submits, formLast>>

\* time passes while the form is open
AuthTick ==
    /\ now < RateLimitWindowMs
    /\ now' = now + RateLimitWindowMs \div TicksPerWindow
    /\ UNCHANGED <<maxAttempts, windowMs, attempts, rlLast, recorded,
                   callerVars, formVars, retryVars, sumVars, extVars>>

AuthSubmits == \E e \in Emails, formOk \in BOOLEAN : AuthSubmit(e, formOk)
AuthSettles == \E outcome \in AuthOutcomes : AuthSettle(outcome)

AuthInit ==
    /\ now = 0
    /\ maxAttempts = RateLimitAttempts
    /\ windowMs = RateLimitWindowMs
    /\ attempts = RenderedLimiter
    /\ rlLast = NoCall
    /\ recorded = [k \in Keys |-> <<>>]
    /\ CallerInit
    /\ FormInit
    /\ RetryInit
    /\ SumInit
    /\ ExtInit

NextAuth == AuthSubmits \/ AuthSettles \/ AuthRender \/ AuthTick

SpecAuth == AuthInit /\ [][NextAuth]_vars

--------------------------------------------------------------------------
(* withRetry(fn, maxRetries = 3, delay = 1000) *)

DefaultMaxRetries == 3
DefaultDelay == 1000

Delays == {1, DefaultDelay}
Errors == {"Fail 1", "Fail 2"}
Values == {"success", "data"}

\* the exponent is off by one
BackoffFromTwo(d, a) == d * 2 ^ a

\* delay * Math.pow(2, attempt - 1)
Backoff(d, a) == d * 2 ^ (a - 1)

\* gives up one attempt early
IsLastAttemptEarly(a, m) == a + 1 >= m

\* attempt === maxRetries
IsLastAttempt(a, m) == a = m

\* the timer is started without awaiting the invocation
AfterInvokeNoAwait == "sleeping"

\* await fn(): the loop is suspended until the invocation settles
AfterInvoke == "inFn"

\* a call of withRetry: the parameters are bound, lastError is undefined, attempt = 1
withRetry(m, d) ==
    /\ retryPc = "idle"
    /\ maxRetries' = m
    /\ delay' = d
    /\ attempt' = 1
    /\ lastError' = "undefined"
    /\ retryPc' = "loop"
    /\ UNCHANGED <<timer, retryResult, fnCalls, fnLog, inFlight, slept>>

\* the loop test; fn() is invoked, or the loop is left and lastError is thrown
RetryIterate ==
    /\ retryPc = "loop"
    /\ IF attempt <= maxRetries
       THEN /\ fnCalls' = fnCalls + 1
            /\ inFlight' = inFlight + 1
            /\ retryPc' = AfterInvoke
            /\ timer' = IF AfterInvoke = "sleeping" THEN Backoff(delay, attempt) ELSE timer
            /\ UNCHANGED retryResult
       ELSE /\ retryPc' = "rejected"
            /\ retryResult' = [kind |-> "error", v |-> lastError]
            /\ UNCHANGED <<fnCalls, inFlight, timer>>
    /\ UNCHANGED <<maxRetries, delay, attempt, lastError, fnLog, slept>>

\* the success is dropped and the loop goes on
FnResolvesAndLoops(v) ==
    /\ retryPc = "inFn"
    /\ inFlight' = inFlight - 1
    /\ fnLog' = Append(fnLog, [ok |-> TRUE, v |-> v])
    /\ attempt' = attempt + 1
    /\ retryPc' = "loop"
    /\ UNCHANGED <<maxRetries, delay, lastError, timer, retryResult, fnCalls, slept>>

\* fn() resolved: return await fn()
FnResolves(v) ==
    /\ retryPc = "inFn"
    /\ inFlight' = inFlight - 1
    /\ fnLog' = Append(fnLog, [ok |-> TRUE, v |-> v])
    /\ retryPc' = "resolved"
    /\ retryResult' = [kind |-> "value", v |-> v]
    /\ UNCHANGED <<maxRetries, delay, attempt, lastError, timer, fnCalls, slept>>

\* fn() rejected: the catch block
FnRejects(e) ==
    /\ retryPc = "inFn"
    /\ inFlight' = inFlight - 1
    /\ fnLog' = Append(fnLog, [ok |-> FALSE, v |-> e])
    /\ lastError' = e
    /\ IF IsLastAttempt(attempt, maxRetries)
       THEN /\ retryPc' = "rejected"
            /\ retryResult' = [kind |-> "error", v |-> e]
            /\ UNCHANGED timer
       ELSE /\ retryPc' = "sleeping"
            /\ timer' = Backoff(delay, attempt)
            /\ UNCHANGED retryResult
    /\ UNCHANGED <<maxRetries, delay, attempt, fnCalls, slept>>

\* the timeout elapsed: attempt++ and back to the loop test
TimerFires ==
    /\ retryPc = "sleeping"
    /\ slept' = Append(slept, timer)
    /\ attempt' = attempt + 1
    /\ retryPc' = "loop"
    /\ UNCHANGED <<maxRetries, delay, lastError, timer, retryResult, fnCalls, fnLog, inFlight>>

RetryOthers == <<rlVars, callerVars, formVars, sumVars, extVars>>

RetryCalled ==
    \E m \in -1..MaxRetriesTried, d \in Delays : withRetry(m, d) /\ UNCHANGED RetryOthers
RetryIterates == RetryIterate /\ UNCHANGED RetryOthers
FnResolved == \E v \in Values : FnResolves(v) /\ UNCHANGED RetryOthers
FnRejected == \E e \in Errors : FnRejects(e) /\ UNCHANGED RetryOthers
TimerFired == TimerFires /\ UNCHANGED RetryOthers

NextRetry == RetryCalled \/ RetryIterates \/ FnResolved \/ FnRejected \/ TimerFired

InitRetry == RLDefaultInit /\ CallerInit /\ FormInit /\ RetryInit /\ SumInit /\ ExtInit

SpecRetry == InitRetry /\ [][NextRetry]_vars

--------------------------------------------------------------------------
(* generateSummary(content) of the generate-summary function.

   A string is a sequence of runs [c |-> class, n |-> count] of characters of
   one class, normalised (no empty run, no two adjacent runs of one class):
     "w"  a character that is kept and ends nothing   \w , ; : ( ) -
     "s"  whitespace                                  \s
     "."  a sentence terminator                       . ! ?
     "#"  any other character
   The code only looks at lengths and at these classes. *)

MAX_CONTENT_LENGTH == 10000
SUMMARY_MAX_LENGTH == 500
MinSentenceLength == 10
FallbackLength == 200
maxSentences == 3

Run(c, n) == [c |-> c, n |-> n]

RECURSIVE Norm(_)
Norm(r) ==
    IF r = <<>> THEN <<>>
    ELSE LET h == Head(r)
             t == Norm(Tail(r))
         IN IF h.n = 0 THEN t
            ELSE IF t # <<>> /\ Head(t).c = h.c
                 THEN <<Run(h.c, h.n + Head(t).n)>> \o Tail(t)
                 ELSE <<h>> \o t

\* string.length
RECURSIVE StrLen(_)
StrLen(r) == IF r = <<>> THEN 0 ELSE Head(r).n + StrLen(Tail(r))

\* .replace(/\s+/g, ' ')
CollapseWhitespace(r) ==
    [i \in 1..Len(r) |-> IF r[i].c = "s" THEN Run("s", 1) ELSE r[i]]

\* .replace(/[^\w\s.,!?;:()-]/g, '')
StripSpecial(r) == Norm(SelectSeq(r, LAMBDA x : x.c # "#"))

\* .trim()
Trim(r) ==
    LET l == IF r # <<>> /\ Head(r).c = "s" THEN Tail(r) ELSE r
    IN IF l # <<>> /\ l[Len(l)].c = "s" THEN SubSeq(l, 1, Len(l) - 1) ELSE l

\* .substring(0, k)
RECURSIVE Substring(_, _)
Substring(r, k) ==
    IF r = <<>> \/ k <= 0 THEN <<>>
    ELSE IF Head(r).n <= k
         THEN <<Head(r)>> \o Substring(Tail(r), k - Head(r).n)
         ELSE <<Run(Head(r).c, k)>>

\* .split(/[.!?]+/)
RECURSIVE Split(_)
Split(r) ==
    IF r = <<>> THEN << <<>> >>
    ELSE LET rest == Split(Tail(r))
         IN IF Head(r).c = "." THEN << <<>> >> \o rest
            ELSE << <<Head(r)>> \o Head(rest) >> \o Tail(rest)

\* the cleaning chain of lines 64-67
Clean(c) == Trim(StripSpecial(CollapseWhitespace(c)))

\* lines 74-76
Truncate(c) ==
    IF StrLen(c) > MAX_CONTENT_LENGTH THEN Substring(c, MAX_CONTENT_LENGTH) ELSE c

\* lines 79-82
Sentences(clean) ==
    LET parts == Split(clean)
        trimmed == [i \in 1..Len(parts) |-> Trim(parts[i])]
    IN SelectSeq(trimmed, LAMBDA x : StrLen(x) > MinSentenceLength)

\* the fallback is taken for fewer than two sentences
FewSentences(sentences) == Len(sentences) < 2

\* sentences.length === 0
NoSentences(sentences) == Len(sentences) = 0

\* summary + (summary ? '. ' : '') + sentence
Potential(summary, sentence) ==
    IF summary = <<>> THEN sentence
    ELSE Norm(summary \o <<Run(".", 1), Run("s", 1)>> \o sentence)

\* the test of line 97, with >= : a summary of exactly 500 characters is not taken
ExceedsMaxInclusive(potentialSummary, summary) ==
    StrLen(potentialSummary) >= SUMMARY_MAX_LENGTH /\ StrLen(summary) > 0

\* potentialSummary.length > SUMMARY_MAX_LENGTH && summary.length > 0
ExceedsMax(potentialSummary, summary) ==
    StrLen(potentialSummary) > SUMMARY_MAX_LENGTH /\ StrLen(summary) > 0

\* the for loop of lines 94-107, from sentence i on
RECURSIVE Accumulate(_, _, _, _)
Accumulate(sentences, i, summary, sentenceCount) ==
    IF i > Len(sentences) THEN summary
    ELSE LET potentialSummary == Potential(summary, sentences[i])
         IN IF ExceedsMax(potentialSummary, summary)
            THEN summary
            ELSE IF sentenceCount + 1 >= maxSentences
                 THEN potentialSummary
                 ELSE Accumulate(sentences, i + 1, potentialSummary, sentenceCount + 1)

\* summary + (summary.endsWith('.') ? '' : '.')
EndWithPeriod(summary) ==
    IF summary # <<>> /\ summary[Len(summary)].c = "." THEN summary
    ELSE Norm(summary \o <<Run(".", 1)>>)

Thrown(msg) == [kind |-> "throw", text |-> <<>>, msg |-> msg]
Returned(text) == [kind |-> "return", text |-> text, msg |-> ""]

generateSummary(c) ==
    IF StrLen(c) = 0 THEN Thrown("No content to summarize")
    ELSE IF StrLen(Clean(c)) = 0 THEN Thrown("No meaningful content found after cleaning")
    ELSE LET cleanContent == Truncate(Clean(c))
             sentences == Sentences(cleanContent)
         IN IF NoSentences(sentences)
            THEN Returned(Norm(Substring(cleanContent, FallbackLength)
                               \o <<Run(".", 3)>>))
            ELSE Returned(EndWithPeriod(Accumulate(sentences, 1, <<>>, 0)))

\* the fetched content grows by a chunk: n word characters and then one other
\* character or a long row of terminators
Counts == {0, 10, 11, 249}
Seps == {Run(".", 1), Run("s", 1), Run("#", 1), Run(".", 249)}

FetchChunk(n, sep) ==
    /\ sumPc = "input"
    /\ chunks < MaxChunks
    /\ chunks' = chunks + 1
    /\ content' = Norm(content \o <<Run("w", n), sep>>)
    /\ UNCHANGED <<sumPc, sumResult>>

\* const summary = generateSummary(content)
Summarize ==
    /\ sumPc = "input"
    /\ sumPc' = "done"
    /\ sumResult' = generateSummary(content)
    /\ UNCHANGED <<content, chunks>>

SumOthers == <<rlVars, callerVars, formVars, retryVars, extVars>>

ContentFetched == \E n \in Counts, sep \in Seps : FetchChunk(n, sep) /\ UNCHANGED SumOthers
Summarized == Summarize /\ UNCHANGED SumOthers

NextSummary == ContentFetched \/ Summarized

InitSummary == RLDefaultInit /\ CallerInit /\ FormInit /\ RetryInit /\ SumInit /\ ExtInit

SpecSummary == InitSummary /\ [][NextSummary]_vars

--------------------------------------------------------------------------
(* new URL(s), as far as the validators look at it: whether the parse throws,
   the protocol and the hostname.  The model follows the URL parser for the
   inputs drawn below: a scheme, "//", an authority of userinfo, host and
   port, and whatever follows the authority.  Hosts are names or dotted
   quads in canonical form and ports are in range; percent-encoding, IDNA
   and bracketed IPv6 hosts are not drawn. *)

SchemeChars == Upper \cup Lower \cup Digits \cup {"+", "-", "."}
SpecialSchemes == {"http:", "https:", "ftp:", "ws:", "wss:"}
ForbiddenHostChars == Whitespace \cup {"#", "/", "<", ">", "?", "@", "[", "\\", "]", "^", "|", "%"}

ParseFailure == [ok |-> FALSE, protocol |-> "", hostname |-> ""]

HasScheme(s, colon) ==
    /\ colon > 1
    /\ colon <= Len(s)
    /\ CharAt(s, 1) \in Upper \cup Lower
    /\ \A i \in 2..(colon - 1) : CharAt(s, i) \in SchemeChars

\* what follows the scheme, without its leading slashes
SkipSlashes(rest) ==
    SubSeq(rest, IndexOfAny(rest, {CharAt(rest, i) : i \in 1..Len(rest)} \ {"/", "\\"}), Len(rest))

Authority(after) == SubSeq(after, 1, IndexOfAny(after, {"/", "\\", "?", "#"}) - 1)

\* the authority without its userinfo
HostPort(authority) ==
    SubSeq(authority,
           Greatest({0} \cup {i \in 1..Len(authority) : CharAt(authority, i) = "@"}) + 1,
           Len(authority))

Host(hostport) == SubSeq(hostport, 1, IndexOfAny(hostport, {":"}) - 1)
Port(hostport) == SubSeq(hostport, IndexOfAny(hostport, {":"}) + 1, Len(hostport))

ParseHost(protocol, host, port) ==
    IF protocol \notin SpecialSchemes
    THEN [ok |-> TRUE, protocol |-> protocol, hostname |-> ""]
    ELSE IF \/ host = ""
            \/ \E i \in 1..Len(host) : CharAt(host, i) \in ForbiddenHostChars
            \/ \E i \in 1..Len(port) : CharAt(port, i) \notin Digits
         THEN ParseFailure
         ELSE [ok |-> TRUE, protocol |-> protocol, hostname |-> toLowerCase(host)]

ParseHostPort(protocol, hostport) == ParseHost(protocol, Host(hostport), Port(hostport))

ParseFrom(s, colon) ==
    IF ~HasScheme(s, colon) THEN ParseFailure
    ELSE ParseHostPort(toLowerCase(SubSeq(s, 1, colon)),
                       HostPort(Authority(SkipSlashes(SubSeq(s, colon + 1, Len(s))))))

URL(s) == ParseFrom(s, IndexOfAny(s, {":"}))

\* /^172\.(1[6-9]|2[0-9]|3[0-1])\./.test(hostname)
Private172(hostname) ==
    /\ Len(hostname) >= 7
    /\ StartsWith(hostname, "172.")
    /\ \/ CharAt(hostname, 5) = "1" /\ CharAt(hostname, 6) \in {"6", "7", "8", "9"}
       \/ CharAt(hostname, 5) = "2" /\ CharAt(hostname, 6) \in Digits
       \/ CharAt(hostname, 5) = "3" /\ CharAt(hostname, 6) \in {"0", "1"}
    /\ CharAt(hostname, 7) = "."

\* privatePatterns.some(...)
IsPrivate(hostname) ==
    \/ hostname \in {"localhost", "127.0.0.1", "::1"}
    \/ StartsWith(hostname, "192.168.")
    \/ StartsWith(hostname, "10.")
    \/ Private172(hostname)

--------------------------------------------------------------------------
(* The generate-summary edge function: Deno.serve(async (req) => ...) *)

MaxRequests == 2     \* requests served in one behaviour

\* validateUrl(url) of the edge function
HandlerValidateUrl(url) ==
    LET urlObj == URL(url)
    IN IF ~urlObj.ok THEN FALSE
       ELSE IF urlObj.protocol \notin {"http:", "https:"} THEN FALSE
       ELSE ~IsPrivate(urlObj.hostname)

\* what is thrown: an Error with a message, or a value that is not an Error
ErrorOf(message) == [isError |-> TRUE, message |-> message]
NotAnError == [isError |-> FALSE, message |-> ""]

\* new Date().toISOString()
toISOString(t) == <<"ISO-8601", t>>

\* lines 254-256, with the test for 'Invalid' first
statusCodeInvalidFirst(errorMessage) ==
    IF Includes(errorMessage, "Invalid") THEN 400
    ELSE IF Includes(errorMessage, "not found") THEN 404
    ELSE IF Includes(errorMessage, "not allowed") THEN 405
    ELSE 500

\* lines 254-256
statusCode(errorMessage) ==
    IF Includes(errorMessage, "not found") THEN 404
    ELSE IF Includes(errorMessage, "not allowed") THEN 405
    ELSE IF Includes(errorMessage, "Invalid") THEN 400
    ELSE 500

\* the catch block: the Response for a thrown value
Caught(thrown) ==
    LET errorMessage == IF thrown.isError THEN thrown.message ELSE "Unknown error occurred"
    IN [status |-> statusCode(errorMessage),
        body |-> [error |-> errorMessage, timestamp |-> toISOString(now)]]

\* throw inside the try block: no further call is made, the catch block answers
Fail(thrown) ==
    /\ hResp' = Caught(thrown)
    /\ hPc' = "done"
    /\ UNCHANGED <<hBookmark, hSummary, hCalls>>

Methods == {"OPTIONS", "GET", "DELETE", "POST"}

\* the request body: text that is not JSON, JSON null, or a JSON object
Bodies ==
    {[kind |-> "text", bookmarkId |-> Undefined],
     [kind |-> "null", bookmarkId |-> Undefined]}
    \cup {[kind |-> "object", bookmarkId |-> v] :
            v \in {Undefined, Num("42"), Str(""), Str("b1")}}

\* what the select resolves with: an error (no row), or the row and its url
StoredUrls == {"https://example.com/a", "HTTP://Example.com", "ftp://example.com",
               "http://localhost:3000/", "https://192.168.1.10/x",
               "https://172.16.0.1/", "https://172.32.0.1/", "http://10.0.0.8",
               "https://user@127.0.0.1/", "example.com", "https://exa mple.com",
               "javascript:alert(1)"}
Rows ==
    {[error |-> TRUE, found |-> FALSE, url |-> Undefined],
     [error |-> FALSE, found |-> TRUE, url |-> Str("")]}
    \cup {[error |-> FALSE, found |-> TRUE, url |-> Str(u)] : u \in StoredUrls}

\* what the fetch of the content settles with
FetchRejections ==
    {ErrorOf("The signal has been aborted"),
     ErrorOf("error sending request: host not found"),
     ErrorOf("Invalid URL: host not found"),
     ErrorOf("Invalid header: value not allowed"),
     ErrorOf("connection not allowed: proxy not found"),
     ErrorOf("invalid peer certificate"),
     NotAnError}
FetchOutcomes ==
    {[kind |-> "reject", thrown |-> e, ok |-> FALSE, status |-> ""] : e \in FetchRejections}
    \cup {[kind |-> "response", thrown |-> NotAnError, ok |-> FALSE, status |-> st] :
            st \in {"404", "500"}}
    \cup {[kind |-> "response", thrown |-> NotAnError, ok |-> TRUE, status |-> "200"]}

\* what jinaResponse.json() settles with
Contents == {<<>>, <<Run("s", 2)>>, <<Run("#", 3)>>, <<Run("w", 5)>>,
             <<Run("w", 11), Run(".", 1), Run("s", 1), Run("w", 11), Run(".", 1)>>}
JinaBodies ==
    {[kind |-> "text", dataContent |-> <<>>, content |-> <<>>],
     [kind |-> "null", dataContent |-> <<>>, content |-> <<>>]}
    \cup {[kind |-> "object", dataContent |-> d, content |-> c] :
            d \in {<<>>, <<Run("w", 5)>>}, c \in Contents}

\* lines 112-148: a request arrives; OPTIONS and the other non-POST methods are
\* answered at once, POST goes on to await req.json()
HandleRequest(method, body) ==
    /\ hPc \in {"idle", "done"}
    /\ hServed < MaxRequests
    /\ hServed' = hServed + 1
    /\ hReq' = [method |-> method, body |-> body]
    /\ hBookmark' = NoRow
    /\ hSummary' = <<>>
    /\ hCalls' = <<>>
    /\ hOutcomes' = <<>>
    /\ IF method = "OPTIONS"
       THEN hResp' = [status |-> 200, body |-> <<>>] /\ hPc' = "done"
       ELSE IF method # "POST"
            THEN /\ hResp' = [status |-> 405, body |-> [error |-> "Method not allowed"]]
                 /\ hPc' = "done"
            ELSE hResp' = NoResponse /\ hPc' = "parsing"

\* lines 143-161: req.json() settled; the bookmarkId is taken and the select is issued
BodyParsed ==
    /\ hPc = "parsing"
    /\ LET body == hReq.body
           bookmarkId == body.bookmarkId
       IN IF body.kind = "text" THEN Fail(ErrorOf("Invalid JSON payload"))
          ELSE IF body.kind = "null"
               THEN Fail(ErrorOf("Cannot destructure property 'bookmarkId' of 'requestBody' as it is null."))
               ELSE IF bookmarkId.v = "" \/ bookmarkId.t # "string"
                    THEN Fail(ErrorOf("Valid bookmark ID is required"))
                    ELSE /\ hCalls' = Append(hCalls, "select")
                         /\ hPc' = "selecting"
                         /\ UNCHANGED <<hBookmark, hSummary, hResp>>
    /\ UNCHANGED <<hReq, hOutcomes, hServed>>

\* lines 157-196: the select settled; the url is checked and the fetch is issued
BookmarkSelected(row) ==
    /\ hPc = "selecting"
    /\ IF row.error THEN Fail(ErrorOf("Bookmark not found"))
       ELSE IF ~row.found \/ row.url.t # "string" \/ row.url.v = ""
            THEN Fail(ErrorOf("Invalid bookmark data"))
            ELSE IF ~HandlerValidateUrl(row.url.v)
                 THEN Fail(ErrorOf("URL is not safe to process"))
                 ELSE /\ hBookmark' = row
                      /\ hCalls' = Append(hCalls, "fetch")
                      /\ hPc' = "fetching"
                      /\ UNCHANGED <<hSummary, hResp>>
    /\ hOutcomes' = Append(hOutcomes, row)
    /\ UNCHANGED <<hReq, hServed>>

\* lines 184-205: the fetch settled (a rejection includes the abort after 30 s)
ContentFetchSettled(outcome) ==
    /\ hPc = "fetching"
    /\ IF outcome.kind = "reject" THEN Fail(outcome.thrown)
       ELSE IF ~outcome.ok
            THEN Fail(ErrorOf("Failed to fetch content: HTTP " \o outcome.status))
            ELSE /\ hPc' = "reading"
                 /\ UNCHANGED <<hBookmark, hSummary, hResp, hCalls>>
    /\ hOutcomes' = Append(hOutcomes, outcome)
    /\ UNCHANGED <<hReq, hServed>>

\* jinaData.data?.content || jinaData.content || ''
ContentOf(jinaData) ==
    IF jinaData.dataContent # <<>> THEN jinaData.dataContent ELSE jinaData.content

\* lines 205-227: jinaResponse.json() settled; the summary is made and the update issued
ContentRead(jinaData) ==
    /\ hPc = "reading"
    /\ LET fetched == ContentOf(jinaData)
           summary == generateSummary(fetched)
       IN IF jinaData.kind = "text"
          THEN Fail(ErrorOf("Invalid response from content service"))
          ELSE IF jinaData.kind = "null"
               THEN Fail(ErrorOf("Cannot read properties of null (reading 'data')"))
               ELSE IF StrLen(fetched) = 0 \/ StrLen(Trim(fetched)) = 0
                    THEN Fail(ErrorOf("No content found to summarize"))
                    ELSE IF summary.kind = "throw" THEN Fail(ErrorOf(summary.msg))
                         ELSE /\ hSummary' = summary.text
                              /\ hCalls' = Append(hCalls, "update")
                              /\ hPc' = "updating"
                              /\ UNCHANGED <<hBookmark, hResp>>
    /\ hOutcomes' = Append(hOutcomes, jinaData)
    /\ UNCHANGED <<hReq, hServed>>

\* the success response is sent whatever the update returned
SummaryUpdatedUnchecked(updateError) ==
    /\ hPc = "updating"
    /\ hResp' = [status |-> 200,
                 body |-> [success |-> TRUE, summary |-> hSummary,
                           bookmarkId |-> hReq.body.bookmarkId.v]]
    /\ hPc' = "done"
    /\ hOutcomes' = Append(hOutcomes, updateError)
    /\ UNCHANGED <<hBookmark, hSummary, hCalls, hReq, hServed>>

\* lines 221-248: the update settled
SummaryUpdated(updateError) ==
    /\ hPc = "updating"
    /\ IF updateError THEN Fail(ErrorOf("Failed to save summary"))
       ELSE /\ hResp' = [status |-> 200,
                         body |-> [success |-> TRUE, summary |-> hSummary,
                                   bookmarkId |-> hReq.body.bookmarkId.v]]
            /\ hPc' = "done"
            /\ UNCHANGED <<hBookmark, hSummary, hCalls>>
    /\ hOutcomes' = Append(hOutcomes, updateError)
    /\ UNCHANGED <<hReq, hServed>>

HandlerOthers == <<rlVars, callerVars, formVars, retryVars, sumVars, valVars, addVars, moreVars>>

RequestReceived ==
    \E method \in Methods, body \in Bodies : HandleRequest(method, body) /\ UNCHANGED HandlerOthers
RequestParsed == BodyParsed /\ UNCHANGED HandlerOthers
SelectSettled == \E row \in Rows : BookmarkSelected(row) /\ UNCHANGED HandlerOthers
FetchSettled == \E outcome \in FetchOutcomes : ContentFetchSettled(outcome) /\ UNCHANGED HandlerOthers
JsonSettled == \E jinaData \in JinaBodies : ContentRead(jinaData) /\ UNCHANGED HandlerOthers
UpdateSettled == \E updateError \in BOOLEAN : SummaryUpdated(updateError) /\ UNCHANGED HandlerOthers

NextHandler ==
    \/ RequestReceived
    \/ RequestParsed
    \/ SelectSettled
    \/ FetchSettled
    \/ JsonSettled
    \/ UpdateSettled

InitHandler == RLDefaultInit /\ CallerInit /\ FormInit /\ RetryInit /\ SumInit /\ ExtInit

SpecHandler == InitHandler /\ [][NextHandler]_vars

--------------------------------------------------------------------------
(* The validators of utils/validation, and the variants of utils/index where
   the two differ *)

MaxUrlLength == 2048
MaxEmailLength == 254
MaxEmailLengthIndexVariant == 320
MinPasswordLength == 8
MaxPasswordLength == 128
MinStrengthScore == 3
DefaultMaxLength == 500
MaxLabelLength == 63

Valid(sanitized) == [isValid |-> TRUE, error |-> Undefined, sanitized |-> Str(sanitized)]
Invalid(message) == [isValid |-> FALSE, error |-> Str(message), sanitized |-> Undefined]

\* !x || typeof x !== 'string'
Missing(x) == x.t # "string" \/ x.v = ""

\* s.match(/^https?:\/\//i)
HasHttpPrefix(s) ==
    LET head == toLowerCase(SubSeq(s, 1, IF Len(s) < 8 THEN Len(s) ELSE 8))
    IN StartsWith(head, "http://") \/ StartsWith(head, "https://")

\* the length test of validateUrl, made on the untrimmed input
UrlTooLongUntrimmed(url, trimmedUrl) == Len(url) > MaxUrlLength

\* trimmedUrl.length > 2048
UrlTooLong(url, trimmedUrl) == Len(trimmedUrl) > MaxUrlLength

\* the normalization of validateUrl, for every scheme but http and https
NormalizeUnlessScheme(trimmedUrl) ==
    IF HasHttpPrefix(trimmedUrl) \/ Includes(trimmedUrl, "://") THEN trimmedUrl
    ELSE "https://" \o trimmedUrl

\* lines 410-413
Normalize(trimmedUrl) ==
    IF HasHttpPrefix(trimmedUrl) THEN trimmedUrl ELSE "https://" \o trimmedUrl

validateUrl(url) ==
    IF Missing(url) THEN Invalid("URL is required")
    ELSE LET trimmedUrl == trim(url.v)
             normalizedUrl == Normalize(trimmedUrl)
             urlObject == URL(normalizedUrl)
         IN IF Len(trimmedUrl) = 0 THEN Invalid("URL cannot be empty")
            ELSE IF UrlTooLong(url.v, trimmedUrl)
                 THEN Invalid("URL is too long (max 2048 characters)")
            ELSE IF ~urlObject.ok THEN Invalid("Invalid URL format")
            ELSE IF urlObject.protocol \notin {"http:", "https:"}
                 THEN Invalid("Only HTTP and HTTPS URLs are allowed")
            ELSE IF IsPrivate(toLowerCase(urlObject.hostname)) /\ nodeEnv = "production"
                 THEN Invalid("Private/local URLs are not allowed")
            ELSE Valid(normalizedUrl)

\* /^[^\s@]+@[^\s@]+\.[^\s@]+$/.test(s)
EmailRegex(s) ==
    LET ats == {i \in 1..Len(s) : CharAt(s, i) = "@"}
        at == Least(ats)
    IN /\ \A i \in 1..Len(s) : CharAt(s, i) \notin Whitespace
       /\ Cardinality(ats) = 1
       /\ at > 1
       /\ \E i \in (at + 2)..(Len(s) - 1) : CharAt(s, i) = "."

\* the class of the local part (its backquote is never drawn)
LocalChars == Upper \cup Lower \cup Digits \cup
    {".", "!", "#", "$", "%", "&", "'", "*", "+", "/", "=", "?", "^", "_", "{", "|", "}", "~", "-"}
AlphaNumeric == Upper \cup Lower \cup Digits

\* the regular expression of the utils/index variant: a local part, "@", and
\* labels of 1 to 63 letters, digits and inner hyphens, separated by dots
EmailRegexIndexVariant(s) ==
    LET ats == {i \in 1..Len(s) : CharAt(s, i) = "@"}
        at == Least(ats)
        domain == SubSeq(s, at + 1, Len(s))
        Edge(i) == i = 0 \/ i = Len(domain) + 1 \/ CharAt(domain, i) = "."
    IN /\ Cardinality(ats) = 1
       /\ at > 1
       /\ \A i \in 1..(at - 1) : CharAt(s, i) \in LocalChars
       /\ Len(domain) > 0
       /\ \A i \in 1..Len(domain) :
            /\ CharAt(domain, i) \in AlphaNumeric \cup {"-", "."}
            /\ Edge(i - 1) \/ Edge(i + 1) => CharAt(domain, i) \in AlphaNumeric
       /\ \A i \in 1..(Len(domain) - MaxLabelLength) :
            Includes(SubSeq(domain, i, i + MaxLabelLength), ".")

\* utils/validation: the format is tested first, then the length against 254
validateEmail(email) ==
    IF Missing(email) THEN Invalid("Email is required")
    ELSE LET trimmedEmail == toLowerCase(trim(email.v))
         IN IF Len(trimmedEmail) = 0 THEN Invalid("Email cannot be empty")
            ELSE IF ~EmailRegex(trimmedEmail) THEN Invalid("Invalid email format")
            ELSE IF Len(trimmedEmail) > MaxEmailLength THEN Invalid("Email is too long")
            ELSE Valid(trimmedEmail)

\* utils/index: the length is tested first, against 320, then the format
validateEmailIndexVariant(email) ==
    IF Missing(email) THEN Invalid("Email is required")
    ELSE LET trimmedEmail == toLowerCase(trim(email.v))
         IN IF Len(trimmedEmail) = 0 THEN Invalid("Email cannot be empty")
            ELSE IF Len(trimmedEmail) > MaxEmailLengthIndexVariant
                 THEN Invalid("Email is too long")
            ELSE IF ~EmailRegexIndexVariant(trimmedEmail) THEN Invalid("Invalid email format")
            ELSE Valid(trimmedEmail)

SpecialChars == {"!", "@", "#", "$", "%", "^", "&", "*", "(", ")", ",", ".", "?",
                 "\"", ":", "{", "}", "|", "<", ">"}

\* regex.test(s) for a character class
HasAny(s, chars) == \E i \in 1..Len(s) : CharAt(s, i) \in chars

\* strengthChecks.filter(Boolean).length
strengthScore(password) ==
    Cardinality({chars \in {Upper, Lower, Digits, SpecialChars} : HasAny(password, chars)})

\* the strength test, passed with two classes
TooWeakBelowTwo(score) == score < MinStrengthScore - 1

\* strengthScore < 3
TooWeak(score) == score < MinStrengthScore

validatePassword(password) ==
    IF Missing(password) THEN Invalid("Password is required")
    ELSE IF Len(password.v) < MinPasswordLength
         THEN Invalid("Password must be at least 8 characters long")
    ELSE IF Len(password.v) > MaxPasswordLength
         THEN Invalid("Password is too long (max 128 characters)")
    ELSE IF TooWeak(strengthScore(password.v))
         THEN Invalid("Password must contain at least 3 of: uppercase, lowercase, numbers, special characters")
    ELSE Valid(password.v)

\* DOMPurify.sanitize(s, { ALLOWED_TAGS: [], ALLOWED_ATTR: [] }) for text whose
\* "<" all open a tag: the tags go, the text between them stays
sanitize(s) ==
    LET opens == {i \in 1..Len(s) : CharAt(s, i) = "<"}
        closes == {i \in 1..Len(s) : CharAt(s, i) = ">"}
        InTag(k) == LET before == {i \in opens : i <= k}
                    IN /\ before # {}
                       /\ \E j \in closes : j >= k
                       /\ \A j \in closes : j < Greatest(before) \/ j >= k
    IN Concat([k \in 1..Len(s) |-> IF InTag(k) THEN "" ELSE CharAt(s, k)])

TextTooLong(maxLength) == "Text is too long (max " \o ToString(maxLength) \o " characters)"

\* utils/validation: nothing to validate is valid
validateAndSanitizeText(text, maxLength) ==
    IF Missing(text) THEN Valid("")
    ELSE IF Len(text.v) > maxLength THEN Invalid(TextTooLong(maxLength))
    ELSE Valid(sanitize(trim(text.v)))

\* utils/index: nothing to validate is an error
validateAndSanitizeTextIndexVariant(text, maxLength) ==
    IF Missing(text) THEN Invalid("Text is required")
    ELSE IF Len(trim(text.v)) = 0 THEN Invalid("Text cannot be empty")
    ELSE IF Len(text.v) > maxLength THEN Invalid(TextTooLong(maxLength))
    ELSE Valid(sanitize(trim(text.v)))

\* a string of length n: the prefix, 'a'.repeat(...), the suffix
OfLength(prefix, n, suffix) ==
    prefix \o Repeat("a", n - Len(prefix) - Len(suffix)) \o suffix

NodeEnvs == {"production", "development"}

ShortUrls ==
    {"https://example.com", "example.com", "not-a-url", "ftp://example.com",
     "  https://example.com/path \n", "HTTP://Example.COM/A", "hTTps://x.io", "httpx.io",
     "not a url", "localhost:3000", "http://192.168.0.1/", "10.0.0.1", "172.20.1.1/x",
     "172.32.0.1", "   ", "http://", "https:// ", "//example.com", "mailto:a@x.io",
     "<b>Title</b> of  a page", "Clean text"}
LongUrls ==
    {OfLength("example.com/", n, "") :
        n \in {MaxUrlLength - 8, MaxUrlLength - 7, MaxUrlLength, MaxUrlLength + 1}}
    \cup {OfLength("https://example.com/", n, "") :
            n \in {MaxUrlLength, MaxUrlLength + 1, MaxUrlLength + 22}}
    \cup {"https://example.com" \o Repeat(" ", MaxUrlLength),
          Repeat(" ", MaxUrlLength) \o "example.com/a",
          Repeat(" ", MaxUrlLength + 1),
          "  " \o OfLength("example.com/", MaxUrlLength, "") \o "  ",
          "  " \o OfLength("http://example.com/", MaxUrlLength + 1, "") \o "  "}
Urls == ShortUrls \cup LongUrls

EmailLengths ==
    {MaxEmailLength, MaxEmailLength + 1, MaxEmailLengthIndexVariant,
     MaxEmailLengthIndexVariant + 1}
EmailInputs ==
    {"test@example.com", "Test@Example.COM", "  Test@Example.COM ", "invalid-email",
     "a@b", "a@b.c", "a b@example.com", "a@@example.com", "@example.com",
     "a@-example.com", "a@example..com"}
    \cup {OfLength("", n, "@example.com") : n \in EmailLengths}
    \cup {OfLength("A", n, "@Example.com ") : n \in EmailLengths}
    \cup {OfLength("", n, "") : n \in EmailLengths}
    \cup {OfLength("a@", n, ".com") : n \in EmailLengths}

\* a password of length n that starts with the given characters
Padded(start, n) ==
    IF n <= Len(start) THEN SubSeq(start, 1, n)
    ELSE start \o Repeat(CharAt(start, Len(start)), n - Len(start))
PasswordStarts ==
    {"a", "A", "1", "!", " ", "aA", "a1", "a!", "A1", "A!", "1!", "a ", "aA1", "aA!",
     "a1!", "A1!", "aA ", "aA1!", "aA_", "StrongPass123!", "password", "123"}
PasswordLengths ==
    {1, MinPasswordLength - 1, MinPasswordLength, MaxPasswordLength, MaxPasswordLength + 1}
Passwords ==
    PasswordStarts \cup {Padded(start, n) : start \in PasswordStarts, n \in PasswordLengths}

Texts ==
    {"  Clean text  ", "<b>Bold</b> title", " \t ", "a", "<i></i>"}
    \cup {OfLength("", n, "") : n \in {200, 201, DefaultMaxLength, DefaultMaxLength + 1}}
MaxLengths == {200, DefaultMaxLength}

NotStrings == {Undefined, Null, Num("0"), Num("42")}
Inputs ==
    NotStrings \cup {Str("")} \cup {Str(s) : s \in Urls \cup EmailInputs \cup Passwords \cup Texts}

\* a validator is applied to the input
Validate(fn, maxLength, out) ==
    /\ vLast' = [fn |-> fn, arg |-> vIn, maxLength |-> maxLength, out |-> out]
    /\ vPrev' = NoValidation
    /\ UNCHANGED <<nodeEnv, vIn>>

\* validateUrl is applied to the sanitized value it returned
ValidateUrlAgain ==
    /\ vLast.fn = "validateUrl"
    /\ vLast.out.isValid
    /\ vLast' = [fn |-> "validateUrl", arg |-> vLast.out.sanitized, maxLength |-> 0,
                 out |-> validateUrl(vLast.out.sanitized)]
    /\ vPrev' = vLast
    /\ UNCHANGED <<nodeEnv, vIn>>

ValOthers == <<rlVars, callerVars, formVars, retryVars, sumVars, handlerVars, addVars, moreVars>>

UrlValidated == Validate("validateUrl", 0, validateUrl(vIn)) /\ UNCHANGED ValOthers
UrlValidatedAgain == ValidateUrlAgain /\ UNCHANGED ValOthers
EmailValidated == Validate("validateEmail", 0, validateEmail(vIn)) /\ UNCHANGED ValOthers
EmailValidatedIndexVariant ==
    /\ Validate("validateEmail (utils/index)", 0, validateEmailIndexVariant(vIn))
    /\ UNCHANGED ValOthers
PasswordValidated ==
    Validate("validatePassword", 0, validatePassword(vIn)) /\ UNCHANGED ValOthers
TextValidated ==
    \E maxLength \in MaxLengths :
        /\ Validate("validateAndSanitizeText", maxLength,
                    validateAndSanitizeText(vIn, maxLength))
        /\ UNCHANGED ValOthers
TextValidatedIndexVariant ==
    \E maxLength \in MaxLengths :
        /\ Validate("validateAndSanitizeText (utils/index)", maxLength,
                    validateAndSanitizeTextIndexVariant(vIn, maxLength))
        /\ UNCHANGED ValOthers

NextValidators ==
    \/ UrlValidated
    \/ UrlValidatedAgain
    \/ EmailValidated
    \/ EmailValidatedIndexVariant
    \/ PasswordValidated
    \/ TextValidated
    \/ TextValidatedIndexVariant

\* the validators are pure: a behaviour applies them to one input, in any order
InitValidators ==
    /\ RLDefaultInit /\ CallerInit /\ FormInit /\ RetryInit /\ SumInit
    /\ HandlerInit /\ AddInit /\ MoreInit
    /\ nodeEnv \in NodeEnvs
    /\ vIn \in Inputs
    /\ vLast = NoValidation
    /\ vPrev = NoValidation

SpecValidators == InitValidators /\ [][NextValidators]_vars

--------------------------------------------------------------------------
(* useBookmarks().addBookmark, with the validators of utils/validation *)

BookmarkError(code, message) == Str(code \o ": " \o message)

\* return { data, error }
Return(c, data, err) ==
    /\ addResult' = [addResult EXCEPT ![c] = [returned |-> TRUE, data |-> data, error |-> err]]
    /\ addPc' = [addPc EXCEPT ![c] = "done"]

Did(c, ops) == addLog' = [addLog EXCEPT ![c] = addLog[c] \o ops]

\* x || ''
OrEmpty(x) == IF Missing(x) THEN Str("") ELSE x

UpperChar(c) ==
    IF c \in Lower
    THEN CharAt(UpperCaseLetters, CHOOSE i \in 1..26 : CharAt(LowerCaseLetters, i) = c)
    ELSE c

StripWww(domain) ==
    IF StartsWith(domain, "www.") THEN SubSeq(domain, 5, Len(domain)) ELSE domain

LastDot(s) == Greatest({0} \cup {i \in 1..Len(s) : CharAt(s, i) = "."})

\* s.replace(/\.[^.]*$/, '')
CleanDomain(s) == IF LastDot(s) = 0 THEN s ELSE SubSeq(s, 1, LastDot(s) - 1)

Capitalize(s) == IF s = "" THEN "" ELSE UpperChar(CharAt(s, 1)) \o SubSeq(s, 2, Len(s))

\* the title extractMetadata(url) makes of the host name
MetadataTitle(url) == Capitalize(CleanDomain(StripWww(URL(url).hostname)))

\* the validation of lines 43-58, with an over-long title let through
ValidationFailureUrlOnly(urlValidation, titleValidation) ==
    IF ~urlValidation.isValid
    THEN BookmarkError("BOOKMARK_INVALID_URL", urlValidation.error.v)
    ELSE Null

\* lines 43-58: the error addBookmark returns at once, or null
ValidationFailure(urlValidation, titleValidation) ==
    IF ~urlValidation.isValid
    THEN BookmarkError("BOOKMARK_INVALID_URL", urlValidation.error.v)
    ELSE IF ~titleValidation.isValid
         THEN BookmarkError("VALIDATION_TOO_LONG", titleValidation.error.v)
         ELSE Null

\* line 86: sanitizedTitle || title || new URL(sanitizedUrl).hostname
TitleOf(sanitizedTitle, sanitizedUrl) ==
    IF sanitizedTitle # "" THEN sanitizedTitle
    ELSE IF MetadataTitle(sanitizedUrl) # "" THEN MetadataTitle(sanitizedUrl)
    ELSE URL(sanitizedUrl).hostname

\* lines 60-61 and 86: the call's locals; the title of the row to insert depends on
\* the two sanitized values only and is kept with them
Locals(sanitizedUrl, sanitizedTitle) ==
    [sanitizedUrl |-> sanitizedUrl,
     sanitizedTitle |-> sanitizedTitle,
     title |-> TitleOf(sanitizedTitle, sanitizedUrl),
     data |-> Null]

\* lines 36-69: the call runs up to its first await
addBookmark(c, bookmarkData) ==
    /\ addPc[c] = "idle"
    /\ addIn' = [addIn EXCEPT ![c] = bookmarkData]
    /\ LET urlValidation == validateUrl(bookmarkData.url)
           titleValidation == validateAndSanitizeText(OrEmpty(bookmarkData.title), 200)
           failure == ValidationFailure(urlValidation, titleValidation)
       IN IF user = Null
          THEN /\ Return(c, Undefined, BookmarkError("AUTH_SESSION_EXPIRED", "User not authenticated"))
               /\ UNCHANGED <<addLocal, addLog>>
          ELSE IF failure # Null
               THEN Return(c, Null, failure) /\ UNCHANGED <<addLocal, addLog>>
               ELSE /\ addLocal' = [addLocal EXCEPT ![c] =
                            Locals(IF urlValidation.isValid
                                   THEN urlValidation.sanitized.v ELSE "undefined",
                                   IF titleValidation.isValid
                                   THEN titleValidation.sanitized.v ELSE "")]
                    /\ Did(c, <<"select">>)
                    /\ addPc' = [addPc EXCEPT ![c] = "lookup"]
                    /\ UNCHANGED addResult
    /\ UNCHANGED <<user, store, bookmarks>>

\* select('id').eq('user_id', ...).eq('url', ...).single(): the row, when there is exactly one
Existing(url) ==
    LET rows == {r \in store : r.url = url}
    IN IF Cardinality(rows) = 1 THEN CHOOSE r \in rows : TRUE ELSE Null

\* lines 64-91: the duplicate lookup settled; the metadata is extracted and the insert issued
DuplicateLookupSettled(c, failed) ==
    /\ addPc[c] = "lookup"
    /\ IF ~failed /\ Existing(addLocal[c].sanitizedUrl) # Null
       THEN /\ Return(c, Null, BookmarkError("BOOKMARK_DUPLICATE_URL",
                                             "This URL has already been bookmarked"))
            /\ UNCHANGED addLog
       ELSE /\ Did(c, <<"extractMetadata", "insert">>)
            /\ addPc' = [addPc EXCEPT ![c] = "insert"]
            /\ UNCHANGED addResult
    /\ UNCHANGED <<user, store, bookmarks, addIn, addLocal>>

\* gen_random_uuid(): an id no row had before
NextId == Cardinality({c \in AddCalls : addLocal[c].data # Null}) + 1

\* the row the insert returns is in the table and in the call's data
Inserted(c, data) ==
    /\ store' = store \cup {data}
    /\ addLocal' = [addLocal EXCEPT ![c].data = data]

\* lines 81-99 and 145-154: the insert settled; on success the summary is requested
InsertSettled(c, failed) ==
    /\ addPc[c] = "insert"
    /\ IF failed
       THEN /\ Did(c, <<"logError">>)
            /\ Return(c, Null, BookmarkError("BOOKMARK_SAVE_FAILED", "An unexpected error occurred"))
            /\ UNCHANGED <<store, addLocal>>
       ELSE /\ Inserted(c, [id |-> NextId,
                             url |-> addLocal[c].sanitizedUrl,
                             title |-> addLocal[c].title])
            /\ Did(c, <<"fetch">>)
            /\ addPc' = [addPc EXCEPT ![c] = "summary"]
            /\ UNCHANGED addResult
    /\ UNCHANGED <<user, bookmarks, addIn>>

\* the catch of lines 100-103, rethrowing to the catch of line 107
SummaryFailedAndThrown(c) ==
    /\ Did(c, <<"fetch failed", "logError", "logError", "logError">>)
    /\ Return(c, Null, BookmarkError("BOOKMARK_SAVE_FAILED", "Failed to generate summary"))

\* lines 165-168 and 100-105: the failure is logged in generateSummary and in
\* addBookmark, which goes on to fetchBookmarks
SummaryFailed(c) ==
    /\ Did(c, <<"fetch failed", "logError", "logError", "fetchBookmarks">>)
    /\ addPc' = [addPc EXCEPT ![c] = "refetch"]
    /\ UNCHANGED addResult

SummaryResponses == {"reject", "200", "400", "404", "500"}

\* lines 147-168: the fetch of the generate-summary function settled
SummaryRequestSettled(c, response) ==
    /\ addPc[c] = "summary"
    /\ IF response # "200"
       THEN SummaryFailed(c)
       ELSE /\ Did(c, <<"fetchBookmarks">>)
            /\ addPc' = [addPc EXCEPT ![c] = "summary refetch"]
            /\ UNCHANGED addResult
    /\ UNCHANGED <<user, store, bookmarks, addIn, addLocal>>

\* lines 13-30: fetchBookmarks sets the list, or logs the error and leaves it
BookmarksFetched(failed) == bookmarks' = IF failed THEN bookmarks ELSE store

\* lines 164 and 105: the fetchBookmarks of generateSummary settled
SummaryRefetchSettled(c, failed) ==
    /\ addPc[c] = "summary refetch"
    /\ BookmarksFetched(failed)
    /\ Did(c, <<"fetchBookmarks">>)
    /\ addPc' = [addPc EXCEPT ![c] = "refetch"]
    /\ UNCHANGED <<user, store, addIn, addLocal, addResult>>

\* lines 105-106: the fetchBookmarks of addBookmark settled
RefetchSettled(c, failed) ==
    /\ addPc[c] = "refetch"
    /\ BookmarksFetched(failed)
    /\ Return(c, addLocal[c].data, Null)
    /\ UNCHANGED <<user, store, addIn, addLocal, addLog>>

AddUrls == {"example.com", " https://example.com ", "not a url"}
AddTitles == {Undefined, Str("My <b>page</b>"), Str(OfLength("", 201, ""))}
AddInputs == {[url |-> Str(u), title |-> t] : u \in AddUrls, t \in AddTitles}

AddOthers == <<rlVars, callerVars, formVars, retryVars, sumVars, handlerVars, valVars, moreVars>>

AddCalled ==
    \E c \in AddCalls, bookmarkData \in AddInputs :
        addBookmark(c, bookmarkData) /\ UNCHANGED AddOthers
LookupSettled ==
    \E c \in AddCalls, failed \in BOOLEAN :
        DuplicateLookupSettled(c, failed) /\ UNCHANGED AddOthers
InsertDone ==
    \E c \in AddCalls, failed \in BOOLEAN : InsertSettled(c, failed) /\ UNCHANGED AddOthers
SummarySettled ==
    \E c \in AddCalls, response \in SummaryResponses :
        SummaryRequestSettled(c, response) /\ UNCHANGED AddOthers
SummaryRefetched ==
    \E c \in AddCalls, failed \in BOOLEAN :
        SummaryRefetchSettled(c, failed) /\ UNCHANGED AddOthers
Refetched ==
    \E c \in AddCalls, failed \in BOOLEAN : RefetchSettled(c, failed) /\ UNCHANGED AddOthers

NextAdd ==
    \/ AddCalled
    \/ LookupSettled
    \/ InsertDone
    \/ SummarySettled
    \/ SummaryRefetched
    \/ Refetched

InitAdd ==
    /\ RLDefaultInit /\ CallerInit /\ FormInit /\ RetryInit /\ SumInit
    /\ HandlerInit /\ ValInit /\ MoreInit
    /\ user \in {Str("u1"), Null}
    /\ store = {}
    /\ bookmarks = {}
    /\ addPc = [c \in AddCalls |-> "idle"]
    /\ addIn = [c \in AddCalls |-> NoInput]
    /\ addLocal = [c \in AddCalls |-> NoLocal]
    /\ addResult = [c \in AddCalls |-> NoReturn]
    /\ addLog = [c \in AddCalls |-> <<>>]

SpecAdd == InitAdd /\ [][NextAdd]_vars

--------------------------------------------------------------------------
(* BookmarksList, AddBookmarkForm and BookmarkCard each call useBookmarks():
   each has a bookmarks state of its own.  BookmarksList shows the form and
   the cards once its own fetch has settled (loading is false). *)

\* a row saved in an earlier session
InitialRows == {[id |-> 0, url |-> "https://example.org", title |-> "Example"]}

AddUnchanged == <<user, bookmarks, addPc, addIn, addLocal, addResult, addLog>>

\* useEffect(() => { fetchBookmarks() }, [user]) of BookmarksList settled
ListFetchSettled(failed) ==
    /\ listPc = "mounting"
    /\ listPc' = "mounted"
    /\ listBookmarks' = IF failed THEN listBookmarks ELSE store
    /\ UNCHANGED <<delPc, delId, delResult, cardBookmarks, store, AddUnchanged>>

\* AddBookmarkForm.handleSubmit: the form is rendered by the mounted list
FormSubmit(c, bookmarkData) ==
    /\ listPc = "mounted"
    /\ addBookmark(c, bookmarkData)

\* BookmarkCard.handleDelete: deleteBookmark(bookmark.id) of a rendered card
deleteBookmark(id) ==
    /\ listPc = "mounted"
    /\ delPc = "idle"
    /\ id \in {r.id : r \in listBookmarks}
    /\ delPc' = "delete"
    /\ delId' = id
    /\ UNCHANGED <<listPc, listBookmarks, delResult, cardBookmarks, store, AddUnchanged>>

\* lines 123-133: the delete settled
DeleteSettled(failed) ==
    /\ delPc = "delete"
    /\ IF failed
       THEN /\ delResult' = [returned |-> TRUE, data |-> Undefined,
                             error |-> BookmarkError("BOOKMARK_DELETE_FAILED",
                                                     "An unexpected error occurred")]
            /\ delPc' = "done"
            /\ UNCHANGED store
       ELSE /\ store' = {r \in store : r.id # delId}
            /\ delPc' = "refetch"
            /\ UNCHANGED delResult
    /\ UNCHANGED <<listPc, listBookmarks, delId, cardBookmarks, AddUnchanged>>

\* lines 133-134: the card's fetchBookmarks settled; return { error: null }
DeleteRefetchSettled(failed) ==
    /\ delPc = "refetch"
    /\ cardBookmarks' = IF failed THEN cardBookmarks ELSE store
    /\ delResult' = [returned |-> TRUE, data |-> Undefined, error |-> Null]
    /\ delPc' = "done"
    /\ UNCHANGED <<listPc, listBookmarks, delId, store, AddUnchanged>>

ListOthers ==
    <<rlVars, callerVars, formVars, retryVars, sumVars, handlerVars, valVars, dedupeVars,
      cacheVars>>

ListFetched == \E failed \in BOOLEAN : ListFetchSettled(failed) /\ UNCHANGED ListOthers
\* what the form is submitted with: a URL that validates and one that does not
FormInputs == {[url |-> Str(u), title |-> Undefined] : u \in {"example.com", "not a url"}}

FormSubmitted ==
    \E c \in AddCalls, bookmarkData \in FormInputs :
        FormSubmit(c, bookmarkData) /\ UNCHANGED AddOthers
DeleteCalled == \E id \in 0..Cardinality(AddCalls) : deleteBookmark(id) /\ UNCHANGED ListOthers
DeleteDone == \E failed \in BOOLEAN : DeleteSettled(failed) /\ UNCHANGED ListOthers
DeleteRefetched ==
    \E failed \in BOOLEAN : DeleteRefetchSettled(failed) /\ UNCHANGED ListOthers

NextList ==
    \/ ListFetched
    \/ FormSubmitted
    \/ LookupSettled
    \/ InsertDone
    \/ SummarySettled
    \/ SummaryRefetched
    \/ Refetched
    \/ DeleteCalled
    \/ DeleteDone
    \/ DeleteRefetched

InitList ==
    /\ RLDefaultInit /\ CallerInit /\ FormInit /\ RetryInit /\ SumInit
    /\ HandlerInit /\ ValInit /\ MoreInit
    /\ user = Str("u1")
    /\ store \in {{}, InitialRows}
    /\ bookmarks = {}
    /\ addPc = [c \in AddCalls |-> "idle"]
    /\ addIn = [c \in AddCalls |-> NoInput]
    /\ addLocal = [c \in AddCalls |-> NoLocal]
    /\ addResult = [c \in AddCalls |-> NoReturn]
    /\ addLog = [c \in AddCalls |-> <<>>]

SpecList == InitList /\ [][NextList]_vars

\* the requests the hooks await
RequestsSettle ==
    \/ ListFetched
    \/ LookupSettled
    \/ InsertDone
    \/ SummarySettled
    \/ SummaryRefetched
    \/ Refetched
    \/ DeleteDone
    \/ DeleteRefetched

\* every awaited request settles; the user need not submit or delete anything
SpecListFair == SpecList /\ WF_vars(RequestsSettle)

--------------------------------------------------------------------------
(* RequestDeduplicator.  dedupe runs from its first statement to its return
   without an await.  The promise it stores is requestFn().finally(...): the
   callback of finally runs in a microtask after requestFn's promise settled,
   and the stored promise settles after the callback. *)

MaxTtl == 2         \* TTLCache's ttlMs is drawn from -1..MaxTtl
MaxDedupes == 4     \* dedupe calls in one behaviour

Outcomes == {"value", "error"}

\* the callback of finally leaves the map as it is
KeepEntry(map, key) == map

\* this.pendingRequests.delete(key)
Delete(map, key) == [map EXCEPT ![key] = 0]

\* the requests of key whose stored promise has not settled
InFlightFor(key) ==
    {r \in DOMAIN requests : requests[r].key = key /\ requests[r].stage # "finalized"}

DedupeCall(key, invoked, request) ==
    [key |-> key, invoked |-> invoked, request |-> request, inFlightBefore |-> InFlightFor(key)]

\* dedupe(key, requestFn); throws: requestFn() throws before it returns a promise
dedupe(key, throws) ==
    /\ Len(dedupeCalls) < MaxDedupes
    /\ IF pendingRequests[key] # 0
       THEN /\ dedupeCalls' = Append(dedupeCalls, DedupeCall(key, FALSE, pendingRequests[key]))
            /\ UNCHANGED <<pendingRequests, requests>>
       ELSE IF throws
       THEN /\ requests' = Append(requests, [key |-> key, stage |-> "finalized",
                                             outcome |-> <<"error", Len(requests) + 1>>])
            /\ dedupeCalls' = Append(dedupeCalls, DedupeCall(key, TRUE, Len(requests) + 1))
            /\ UNCHANGED pendingRequests
       ELSE /\ requests' = Append(requests, [key |-> key, stage |-> "pending",
                                             outcome |-> <<"none", 0>>])
            /\ pendingRequests' = [pendingRequests EXCEPT ![key] = Len(requests) + 1]
            /\ dedupeCalls' = Append(dedupeCalls, DedupeCall(key, TRUE, Len(requests) + 1))

\* the promise requestFn returned settles; the callback of finally is queued
RequestSettles(r, outcome) ==
    /\ requests[r].stage = "pending"
    /\ requests' = [requests EXCEPT ![r] = [@ EXCEPT !.stage = "settled",
                                                     !.outcome = <<outcome, r>>]]
    /\ UNCHANGED <<pendingRequests, dedupeCalls>>

\* the callback of finally runs and the stored promise settles
FinallyRuns(r) ==
    /\ requests[r].stage = "settled"
    /\ pendingRequests' = Delete(pendingRequests, requests[r].key)
    /\ requests' = [requests EXCEPT ![r].stage = "finalized"]
    /\ UNCHANGED dedupeCalls

\* what the promise a dedupe call returned has settled with, if it has
SettledWith(call) ==
    IF requests[call.request].stage = "finalized"
    THEN requests[call.request].outcome
    ELSE <<"pending", 0>>

DedupeOthers ==
    <<rlVars, callerVars, formVars, retryVars, sumVars, handlerVars, valVars, addVars, listVars,
      cacheVars>>

Deduped == \E key \in DedupeKeys, throws \in BOOLEAN : dedupe(key, throws) /\ UNCHANGED DedupeOthers
RequestSettled ==
    \E r \in DOMAIN requests, outcome \in Outcomes :
        RequestSettles(r, outcome) /\ UNCHANGED DedupeOthers
FinallyRan == \E r \in DOMAIN requests : FinallyRuns(r) /\ UNCHANGED DedupeOthers

NextDedupe == Deduped \/ RequestSettled \/ FinallyRan

InitDedupe ==
    /\ RLDefaultInit /\ CallerInit /\ FormInit /\ RetryInit /\ SumInit
    /\ HandlerInit /\ ValInit /\ AddInit /\ DedupeInit /\ ListInit /\ CacheInit

SpecDedupe == InitDedupe /\ [][NextDedupe]_vars

--------------------------------------------------------------------------
(* TTLCache: a Map of { data, expiry } with expiry = Date.now() + ttl at the
   time of set; get, has and size drop the items they find expired.  Date.now()
   is the clock `now`, which only advances. *)

CacheValues == {Str("a"), Str("b")}

\* an item is dropped at its expiry already
ExpiredAtExpiry(item, t) == t >= item.expiry

\* Date.now() > item.expiry
Expired(item, t) == t > item.expiry

CacheCall(op, key) ==
    [op |-> op, key |-> key, at |-> now, ret |-> Undefined, has |-> FALSE, size |-> 0]

\* set(key, value)
CacheSet(key, value) ==
    /\ cache' = [cache EXCEPT ![key] = [present |-> TRUE, data |-> value, expiry |-> now + ttl]]
    /\ cacheSets' = [cacheSets EXCEPT ![key] = [done |-> TRUE, value |-> value, at |-> now]]
    /\ cacheLast' = CacheCall("set", key)
    /\ UNCHANGED ttl

\* this.cache.delete(key) when the item is there and expired
Dropped(key) ==
    IF cache[key].present /\ Expired(cache[key], now)
    THEN [cache EXCEPT ![key] = NoItem]
    ELSE cache

\* get(key)
CacheGet(key) ==
    /\ cache' = Dropped(key)
    /\ cacheLast' = [CacheCall("get", key) EXCEPT !.ret = cache'[key].data]
    /\ UNCHANGED <<ttl, cacheSets>>

\* has(key)
CacheHas(key) ==
    /\ cache' = Dropped(key)
    /\ cacheLast' = [CacheCall("has", key) EXCEPT !.has = cache'[key].present]
    /\ UNCHANGED <<ttl, cacheSets>>

\* clear()
CacheClear ==
    /\ cache' = [k \in CacheKeys |-> NoItem]
    /\ cacheSets' = [k \in CacheKeys |-> NoSet]
    /\ cacheLast' = CacheCall("clear", "")
    /\ UNCHANGED ttl

\* size(): the expired items are deleted, then this.cache.size
CacheSize ==
    /\ cache' = [k \in CacheKeys |-> Dropped(k)[k]]
    /\ cacheLast' = [CacheCall("size", "") EXCEPT
                         !.size = Cardinality({k \in CacheKeys : cache'[k].present})]
    /\ UNCHANGED <<ttl, cacheSets>>

CacheOthers ==
    <<rlVars, callerVars, formVars, retryVars, sumVars, handlerVars, valVars, addVars,
      dedupeVars, listVars>>

SetCalled ==
    \E key \in CacheKeys, value \in CacheValues : CacheSet(key, value) /\ UNCHANGED CacheOthers
GetCalled == \E key \in CacheKeys : CacheGet(key) /\ UNCHANGED CacheOthers
HasCalled == \E key \in CacheKeys : CacheHas(key) /\ UNCHANGED CacheOthers
ClearCalled == CacheClear /\ UNCHANGED CacheOthers
SizeCalled == CacheSize /\ UNCHANGED CacheOthers

NextCache == SetCalled \/ GetCalled \/ HasCalled \/ ClearCalled \/ SizeCalled \/ ClockTick

\* new TTLCache(ttlMs)
InitCache ==
    /\ RLDefaultInit /\ CallerInit /\ FormInit /\ RetryInit /\ SumInit
    /\ HandlerInit /\ ValInit /\ AddInit /\ DedupeInit /\ ListInit
    /\ EmptyCache
    /\ ttl \in -1..MaxTtl

SpecCache == InitCache /\ [][NextCache]_vars

--------------------------------------------------------------------------
(* Claims about the RateLimiter *)

\* the subsequence of s whose indices are in I, in order
RECURSIVE Pick(_, _)
Pick(s, I) ==
    IF s = <<>> THEN <<>>
    ELSE LET rest == Pick(Tail(s), {i - 1 : i \in I \ {1}}) IN
         IF 1 \in I THEN <<Head(s)>> \o rest ELSE rest

\* C1 as stated: isAllowed(key) at time now removes exactly the timestamps
\* t < now - windowMs (one equal to now - windowMs is kept), keeps the rest in
\* order, and returns true iff fewer than maxAttempts remain.
C1_Original ==
    rlLast.op = "isAllowed" =>
        /\ attempts[rlLast.key] =
              Pick(rlLast.pre, {i \in 1..Len(rlLast.pre) :
                                   ~(rlLast.pre[i] < rlLast.at - windowMs)})
        /\ rlLast.ret = (Len(attempts[rlLast.key]) < maxAttempts)

\* C1 amended: isAllowed(key) at time now removes exactly the timestamps
\* t <= now - windowMs (one equal to now - windowMs is removed), keeps the rest
\* in order, and returns true iff fewer than maxAttempts remain.
C1_PurgeAndAnswer ==
    rlLast.op = "isAllowed" =>
        /\ attempts[rlLast.key] =
              Pick(rlLast.pre, {i \in 1..Len(rlLast.pre) :
                                   ~(rlLast.pre[i] <= rlLast.at - windowMs)})
        /\ rlLast.ret = (Len(attempts[rlLast.key]) < maxAttempts)

\* C1 witness: an isAllowed call that met a timestamp exactly windowMs old,
\* one older and one younger
C1_Witness ==
    /\ rlLast.op = "isAllowed"
    /\ \E i \in 1..Len(rlLast.pre) : rlLast.pre[i] = rlLast.at - windowMs
    /\ \E i \in 1..Len(rlLast.pre) : rlLast.pre[i] > rlLast.at - windowMs
    /\ \E i \in 1..Len(rlLast.pre) : rlLast.pre[i] < rlLast.at - windowMs

\* recordAttempt calls for key k that are inside the window at time t
InWindow(k, t) == {i \in 1..Len(recorded[k]) : t - recorded[k][i] < windowMs}

\* C2: when at least maxAttempts recordAttempt(k) timestamps are inside the
\* window, isAllowed(k) answers false; when the window has elapsed since every
\* recordAttempt(k), it answers true again.
C2_LockAndRelease ==
    rlLast.op = "isAllowed" =>
        /\ Cardinality(InWindow(rlLast.key, rlLast.at)) >= maxAttempts => ~rlLast.ret
        /\ InWindow(rlLast.key, rlLast.at) = {} => rlLast.ret

\* C2 witness: the key was locked out (maxAttempts attempts recorded), the
\* window elapsed, and isAllowed answered true
C2_Witness ==
    /\ rlLast.op = "isAllowed"
    /\ rlLast.ret
    /\ Len(recorded[rlLast.key]) >= maxAttempts
    /\ Len(rlLast.pre) >= maxAttempts
    /\ InWindow(rlLast.key, rlLast.at) = {}

\* C2, the lock-out half seen: isAllowed answered false
C2_LockedOut == rlLast.op = "isAllowed" /\ ~rlLast.ret

\* no more than maxAttempts recordAttempt(k) timestamps lie in any time span
\* shorter than windowMs
WindowBound(k) ==
    \A i \in 1..Len(recorded[k]) :
        i + maxAttempts <= Len(recorded[k]) =>
            recorded[k][i + maxAttempts] - recorded[k][i] >= windowMs

\* C3: as long as no caller has observed isAllowed(k) == true while another
\* caller's true for k was still unrecorded (every isAllowed+recordAttempt pair
\* ran serialized), no time span shorter than windowMs holds more than
\* maxAttempts recorded attempts for k.
C3_SerializedBound == ~raced => \A k \in Keys : WindowBound(k)

\* C3 witness: without any race both callers recorded maxAttempts attempts for
\* a key at one instant and the next check of that key was refused
C3_Witness ==
    /\ ~raced
    /\ rlLast.op = "isAllowed" /\ ~rlLast.ret
    /\ Len(recorded[rlLast.key]) >= maxAttempts
    /\ maxAttempts >= 2
    /\ \A c \in Callers : callerPc[c] = "idle"

\* C3, the race: the bound without the serialization condition
C3_BoundInEveryInterleaving == \A k \in Keys : WindowBound(k)

\* C4: a valid submission that comes after 5 recorded attempts with the same
\* email inside the last 60 seconds shows TooManyAttempts and does not call
\* signIn/signUp.
C4_FormRateLimited ==
    (formLast.op = "submit" /\ formLast.valid /\ formLast.prior >= RateLimitAttempts) =>
        /\ ~formLast.called
        /\ error = TooManyAttempts

\* C4: the sixth valid submission inside the window went through to signIn
C4_SixthCalled ==
    /\ formLast.op = "submit" /\ formLast.valid
    /\ formLast.prior >= RateLimitAttempts
    /\ formLast.called

--------------------------------------------------------------------------
(* Claims about withRetry *)

Failed(i) == ~fnLog[i].ok
Successes == {i \in 1..Len(fnLog) : fnLog[i].ok}

\* C5: with maxRetries >= 1, a withRetry whose every invocation of fn failed
\* has invoked fn at most maxRetries times; once maxRetries invocations have
\* failed it is rejected, and a rejected withRetry has invoked fn exactly
\* maxRetries times, all failed, and is rejected with the error of the last one.
C5_ExhaustedRethrowsLast ==
    maxRetries >= 1 =>
        /\ fnCalls <= maxRetries
        /\ (Len(fnLog) = maxRetries /\ Successes = {}) => retryPc = "rejected"
        /\ retryPc = "rejected" =>
              /\ fnCalls = maxRetries
              /\ Len(fnLog) = maxRetries
              /\ Successes = {}
              /\ retryResult = [kind |-> "error", v |-> fnLog[Len(fnLog)].v]

\* C5 witness: three failures, the last with another error than the first,
\* and the rejection
C5_Witness ==
    /\ retryPc = "rejected"
    /\ maxRetries = DefaultMaxRetries
    /\ fnLog[1].v # fnLog[3].v

\* C6: as soon as an invocation of fn has succeeded, withRetry is resolved with
\* that invocation's value, it was the last invocation (fn was invoked exactly
\* k times when the k-th is the first success), and the only timeouts are the
\* k - 1 between the failed attempts.
C6_SuccessReturnsAtOnce ==
    Successes # {} =>
        /\ Successes = {Len(fnLog)}
        /\ Len(fnLog) \in 1..maxRetries
        /\ fnCalls = Len(fnLog)
        /\ inFlight = 0
        /\ retryPc = "resolved"
        /\ retryResult = [kind |-> "value", v |-> fnLog[Len(fnLog)].v]
        /\ Len(slept) = Len(fnLog) - 1

\* C6 witness: fn failed twice and succeeded at its third invocation
C6_Witness ==
    /\ retryPc = "resolved"
    /\ Len(fnLog) = 3
    /\ Failed(1) /\ Failed(2)
    /\ maxRetries = DefaultMaxRetries

\* C7: the n-th timeout is delay * 2^(n-1); it is awaited after failed attempt
\* n < maxRetries and before attempt n + 1; no timeout precedes attempt 1 and
\* none follows the failure of attempt maxRetries.
C7_BackoffSchedule ==
    /\ \A n \in 1..Len(slept) : slept[n] = delay * 2 ^ (n - 1)
    /\ retryPc = "sleeping" =>
          /\ timer = delay * 2 ^ (attempt - 1)
          /\ attempt < maxRetries
          /\ Len(slept) = attempt - 1
          /\ Len(fnLog) = attempt /\ Failed(attempt)
    /\ retryPc = "inFn" => Len(slept) = fnCalls - 1
    /\ (retryPc = "rejected" /\ maxRetries >= 1) => Len(slept) = maxRetries - 1

\* C7 witness: four failed attempts, three timeouts, the rejection
C7_Witness ==
    /\ retryPc = "rejected"
    /\ maxRetries = 4
    /\ Len(slept) = 3
    /\ delay = DefaultDelay

\* C8: at most one invocation of fn is in flight; an invocation starts only
\* when every earlier one has settled with a failure and the timeout after
\* the latest failure has elapsed.
C8_Sequential ==
    /\ inFlight <= 1
    /\ fnCalls = Len(fnLog) + inFlight
    /\ inFlight = 1 <=> retryPc = "inFn"
    /\ retryPc = "inFn" =>
          /\ \A i \in 1..Len(fnLog) : Failed(i)
          /\ Len(slept) = Len(fnLog)

\* C8 witness: the third invocation is in flight
C8_Witness ==
    /\ retryPc = "inFn"
    /\ fnCalls = 3
    /\ inFlight = 1

--------------------------------------------------------------------------
(* Claims about generateSummary *)

SummaryReturned == sumPc = "done" /\ sumResult.kind = "return"

\* the qualifying sentences of the content
Qualifying == Sentences(Truncate(Clean(content)))

\* the first min(200, length) characters of the cleaned content and "..."
Fallback ==
    LET clean == Truncate(Clean(content))
        k == IF StrLen(clean) < FallbackLength THEN StrLen(clean) ELSE FallbackLength
    IN Norm(Substring(clean, k) \o <<Run(".", 3)>>)

\* C9: every string generateSummary returns is at most 500 characters long.
C9_SummaryWithinMax == SummaryReturned => StrLen(sumResult.text) <= SUMMARY_MAX_LENGTH

\* C9: a summary of one sentence that alone is longer than 500 characters
C9_LongFirstSentence ==
    /\ SummaryReturned
    /\ Len(Qualifying) = 1
    /\ StrLen(sumResult.text) > SUMMARY_MAX_LENGTH + 1

\* C9: a summary of two sentences, 500 characters joined, and the period
C9_PeriodOverflows ==
    /\ SummaryReturned
    /\ Len(Qualifying) = 2
    /\ StrLen(sumResult.text) = SUMMARY_MAX_LENGTH + 1

\* C10 as stated: with fewer than 2 qualifying sentences (0 or 1) the result
\* is the fallback.
C10_Original == (SummaryReturned /\ Len(Qualifying) < 2) => sumResult.text = Fallback

\* C10 amended: with no qualifying sentence the result is the fallback, the
\* first min(200, length) characters of the cleaned content and "..."; with
\* exactly one qualifying sentence the result is that sentence and ".".
C10_FallbackWithoutSentence ==
    SummaryReturned =>
        /\ Len(Qualifying) = 0 => sumResult.text = Fallback
        /\ Len(Qualifying) = 1 =>
              sumResult.text = Norm(Qualifying[1] \o <<Run(".", 1)>>)

\* C10 witness: a cleaned content of more than 200 characters without a
\* qualifying sentence, cut to 200 characters and "..."
C10_Witness ==
    /\ SummaryReturned
    /\ Len(Qualifying) = 0
    /\ StrLen(Clean(content)) > FallbackLength
    /\ StrLen(sumResult.text) = FallbackLength + 3

\* C10: one qualifying sentence, returned as it is
C10_OneSentence ==
    /\ SummaryReturned
    /\ Len(Qualifying) = 1
    /\ sumResult.text # Fallback

--------------------------------------------------------------------------
(* The generate-summary handler's responses *)

\* the handler answered from its catch block
FromCatch == hPc = "done" /\ {"error", "timestamp"} \subseteq DOMAIN hResp.body

\* C11: in the handler's failure path the status is chosen from the error text
\* by the first match: 404 for "not found", else 405 for "not allowed", else
\* 400 for "Invalid" (case-sensitive), else 500.
C11_StatusByFirstMatch ==
    FromCatch =>
        LET text == hResp.body.error
            notFound == Includes(text, "not found")
            notAllowed == Includes(text, "not allowed")
            invalid == Includes(text, "Invalid")
        IN /\ notFound => hResp.status = 404
           /\ ~notFound /\ notAllowed => hResp.status = 405
           /\ ~notFound /\ ~notAllowed /\ invalid => hResp.status = 400
           /\ ~notFound /\ ~notAllowed /\ ~invalid => hResp.status = 500

\* an error text with "Invalid" and "not found" in it was answered with 404
C11_Witness ==
    /\ FromCatch
    /\ Includes(hResp.body.error, "Invalid")
    /\ Includes(hResp.body.error, "not found")
    /\ hResp.status = 404

\* C12: every non-2xx response of the handler, the rejection of a non-POST
\* method included, has a JSON body with an "error" and a "timestamp".
C12_ErrorBodyHasTimestamp ==
    hPc = "done" /\ hResp.status \notin 200..299 =>
        {"error", "timestamp"} \subseteq DOMAIN hResp.body

\* a method other than POST and OPTIONS was rejected with 405 and no timestamp
C12_MethodRejected ==
    /\ hPc = "done"
    /\ hReq.method \notin {"POST", "OPTIONS"}
    /\ hResp.status = 405
    /\ "error" \in DOMAIN hResp.body
    /\ "timestamp" \notin DOMAIN hResp.body

--------------------------------------------------------------------------
(* Claims about the validators *)

UrlTooLongError == Str("URL is too long (max 2048 characters)")

\* validateUrl was applied to a string
UrlCall == vLast.fn = "validateUrl" /\ vLast.arg.t = "string"

\* C15 as stated: for every string s longer than 2048, validateUrl(s) is invalid
\* with the length error, also when only leading or trailing whitespace makes
\* s that long.
C15_Original ==
    UrlCall /\ Len(vLast.arg.v) > MaxUrlLength =>
        ~vLast.out.isValid /\ vLast.out.error = UrlTooLongError

\* C15 amended: for every string s whose trimmed form is longer than 2048,
\* validateUrl(s) is invalid with the length error; a string whose trimmed form
\* has 1 to 2048 characters never gets the length error, however long its
\* leading and trailing whitespace makes it.
C15_TrimmedTooLong ==
    UrlCall =>
        /\ Len(trim(vLast.arg.v)) > MaxUrlLength =>
              ~vLast.out.isValid /\ vLast.out.error = UrlTooLongError
        /\ Len(trim(vLast.arg.v)) <= MaxUrlLength => vLast.out.error # UrlTooLongError

\* C15 witness: a string with whitespace around a trimmed form longer than
\* 2048 got the length error
C15_Witness ==
    /\ UrlCall
    /\ Len(trim(vLast.arg.v)) > MaxUrlLength
    /\ Len(vLast.arg.v) > Len(trim(vLast.arg.v))
    /\ vLast.out.error = UrlTooLongError

\* C15, the refuting case: a string longer than 2048 by its whitespace only was accepted
C15_PaddedAccepted ==
    UrlCall /\ Len(vLast.arg.v) > MaxUrlLength /\ vLast.out.isValid

\* C16: validateUrl is idempotent on its output: when validateUrl(x) is valid
\* with sanitized value s, validateUrl(s) is valid with sanitized value s.
C16_Idempotent ==
    vPrev.fn = "validateUrl" /\ vPrev.out.isValid =>
        /\ vLast.arg = vPrev.out.sanitized
        /\ vLast.out.isValid
        /\ vLast.out.sanitized = vPrev.out.sanitized

\* an input without a scheme, of trimmed length 2041 to 2048, was accepted with
\* a sanitized value 8 characters longer, and that value was rejected
C16_LongOutputRejected ==
    /\ vPrev.fn = "validateUrl"
    /\ vPrev.out.isValid
    /\ Len(trim(vPrev.arg.v)) \in (MaxUrlLength - 7)..MaxUrlLength
    /\ Len(vPrev.out.sanitized.v) = Len(trim(vPrev.arg.v)) + 8
    /\ vLast.arg = vPrev.out.sanitized
    /\ vLast.out = Invalid(UrlTooLongError.v)

\* the string validateUrl parses: the trimmed input, behind "https://" unless
\* it starts with http:// or https:// in any case
Parsed(s) == IF HasHttpPrefix(trim(s)) THEN trim(s) ELSE "https://" \o trim(s)

\* C17 as stated: for every input whose trimmed form does not start with
\* http:// or https://, validateUrl is valid with sanitized "https://" + trimmed
\* input whenever that string parses; an input with the prefix is returned
\* trimmed and otherwise unchanged.
C17_Original ==
    UrlCall =>
        /\ URL(Parsed(vLast.arg.v)).ok => vLast.out = Valid(Parsed(vLast.arg.v))
        /\ vLast.out.isValid => vLast.out.sanitized.v = Parsed(vLast.arg.v)

\* C17 amended: for every input whose trimmed form has 1 to 2048 characters,
\* validateUrl parses the trimmed input, behind "https://" unless it starts
\* with http:// or https:// in any case (so ftp://host becomes
\* https://ftp://host); when the parse succeeds, and the host is not a private
\* one in production mode, the result is valid and sanitized is exactly the
\* parsed string; no other input is valid.
C17_PrefixedWhenParsed ==
    UrlCall =>
        LET parsed == Parsed(vLast.arg.v)
            inRange == Len(trim(vLast.arg.v)) \in 1..MaxUrlLength
            blocked == nodeEnv = "production" /\ IsPrivate(URL(parsed).hostname)
        IN IF inRange /\ URL(parsed).ok /\ ~blocked
           THEN vLast.out = Valid(parsed)
           ELSE ~vLast.out.isValid

\* C17 witness: an input with the scheme ftp was accepted behind "https://"
C17_Witness ==
    /\ UrlCall
    /\ StartsWith(trim(vLast.arg.v), "ftp://")
    /\ vLast.out = Valid("https://" \o trim(vLast.arg.v))

\* C17, the refuting case: in production mode a private host that parses was rejected
C17_PrivateRejected ==
    /\ UrlCall
    /\ URL(Parsed(vLast.arg.v)).ok
    /\ ~vLast.out.isValid
    /\ vLast.out.error = Str("Private/local URLs are not allowed")

\* the normalized email: trimmed and lower-cased
Normalized(email) == toLowerCase(trim(email))

\* validateEmail, in either variant, was applied to a string that is not blank
EmailCall ==
    /\ vLast.fn \in {"validateEmail", "validateEmail (utils/index)"}
    /\ vLast.arg.t = "string"
    /\ Len(trim(vLast.arg.v)) > 0

\* well-formed for the variant that was called
WellFormed(email) ==
    IF vLast.fn = "validateEmail" THEN EmailRegex(email) ELSE EmailRegexIndexVariant(email)

\* C18: validateEmail fails with the too-long error exactly when the normalized
\* email is longer than 320 characters; a well-formed normalized email of 255
\* to 320 characters is accepted, with sanitized the normalized email.
C18_TooLongAbove320 ==
    EmailCall =>
        LET email == Normalized(vLast.arg.v)
        IN /\ vLast.out.error = Str("Email is too long")
                <=> Len(email) > MaxEmailLengthIndexVariant
           /\ Len(email) \in (MaxEmailLength + 1)..MaxEmailLengthIndexVariant
                /\ WellFormed(email) => vLast.out = Valid(email)

\* the utils/validation variant rejected a well-formed email of 255 characters as too long
C18_Rejected255 ==
    /\ vLast.fn = "validateEmail"
    /\ vLast.arg.t = "string"
    /\ Len(Normalized(vLast.arg.v)) = MaxEmailLength + 1
    /\ EmailRegex(Normalized(vLast.arg.v))
    /\ vLast.out = Invalid("Email is too long")

\* validatePassword was applied to a non-empty string
PasswordCall ==
    vLast.fn = "validatePassword" /\ vLast.arg.t = "string" /\ vLast.arg.v # ""

\* the classes of characters that occur in p
Classes(p) ==
    {c \in {"uppercase", "lowercase", "digit", "symbol"} :
        \E i \in 1..Len(p) :
            CharAt(p, i) \in (CASE c = "uppercase" -> Upper
                                [] c = "lowercase" -> Lower
                                [] c = "digit" -> Digits
                                [] c = "symbol" -> SpecialChars)}

\* C19: validatePassword(p), p a non-empty string, is valid iff 8 <= length(p)
\* <= 128 and at least 3 of the 4 classes occur in p; the checks run in the
\* order too_short, too_long, too_weak; on success sanitized is p unchanged.
C19_LengthThenStrength ==
    PasswordCall =>
        LET p == vLast.arg.v
            message == vLast.out.error.v
        IN /\ vLast.out.isValid
                <=> /\ Len(p) >= 8
                    /\ Len(p) <= 128
                    /\ Cardinality(Classes(p)) >= 3
           /\ vLast.out.isValid => vLast.out.sanitized = Str(p)
           /\ Len(p) < 8 => message = "Password must be at least 8 characters long"
           /\ Len(p) > 128 => message = "Password is too long (max 128 characters)"
           /\ Len(p) \in 8..128 /\ Cardinality(Classes(p)) < 3 =>
                StartsWith(message, "Password must contain at least 3 of")

\* C19 witness: a password of 8 to 128 characters with exactly three classes was accepted
C19_Witness ==
    /\ PasswordCall
    /\ Len(vLast.arg.v) \in 8..128
    /\ Cardinality(Classes(vLast.arg.v)) = 3
    /\ vLast.out = Valid(vLast.arg.v)

\* C19, the order of the checks seen: a short password of one class was reported too short
C19_ShortAndWeak ==
    /\ PasswordCall
    /\ Len(vLast.arg.v) < 8
    /\ Cardinality(Classes(vLast.arg.v)) = 1
    /\ vLast.out = Invalid("Password must be at least 8 characters long")

\* validateAndSanitizeText, in either variant, was called
TextCall ==
    vLast.fn \in {"validateAndSanitizeText", "validateAndSanitizeText (utils/index)"}

\* C20: validateAndSanitizeText answers an empty or non-string input with
\* {isValid: true, sanitized: ""}, and it never reports a 'required' or an
\* 'empty' error.
C20_EmptyIsValid ==
    TextCall =>
        /\ vLast.arg.t # "string" \/ vLast.arg.v = "" => vLast.out = Valid("")
        /\ vLast.out.error \notin {Str("Text is required"), Str("Text cannot be empty")}

\* the utils/index variant answered the empty string with 'Text is required'
C20_IndexVariantRequires ==
    /\ vLast.fn = "validateAndSanitizeText (utils/index)"
    /\ vLast.arg = Str("")
    /\ vLast.out = Invalid("Text is required")

--------------------------------------------------------------------------
(* Claims about addBookmark *)

Logged(c, op) == \E i \in DOMAIN addLog[c] : addLog[c][i] = op

\* the calls whose insert returned a row
InsertedCalls == {c \in AddCalls : addLocal[c].data # Null}

\* C13: once the insert of a call has succeeded, its row stays in the table, a
\* failure of the summary request is followed by the logging of the error, and
\* the call, when it returns, returns { data: the inserted row, error: null }
C13_SummaryFailureIsolated ==
    \A c \in InsertedCalls :
        /\ addLocal[c].data \in store
        /\ \A i \in DOMAIN addLog[c] :
               addLog[c][i] = "fetch failed" =>
                   /\ i + 2 <= Len(addLog[c])
                   /\ addLog[c][i + 1] = "logError"
                   /\ addLog[c][i + 2] = "logError"
        /\ addPc[c] = "done" =>
               addResult[c] = [returned |-> TRUE, data |-> addLocal[c].data, error |-> Null]

\* a call returned its inserted row although the summary request failed
C13_Witness ==
    \E c \in InsertedCalls :
        /\ addPc[c] = "done"
        /\ Logged(c, "fetch failed")
        /\ addResult[c].data = addLocal[c].data
        /\ addResult[c].error = Null
        /\ addResult[c].data \in store

\* the calls whose URL or title does not validate
Rejected ==
    {c \in AddCalls :
        /\ addPc[c] # "idle"
        /\ \/ ~validateUrl(addIn[c].url).isValid
           \/ ~validateAndSanitizeText(OrEmpty(addIn[c].title), 200).isValid}

\* C14: a call whose URL or title does not validate has returned an error at once:
\* it has made no lookup, metadata extraction, insert, summary request or
\* refetch, and holds no sanitized value and no row
C14_ValidationStops ==
    \A c \in Rejected :
        /\ addPc[c] = "done"
        /\ addLog[c] = <<>>
        /\ addLocal[c] = NoLocal
        /\ addResult[c].returned
        /\ addResult[c].error # Null

\* a call with a valid URL and an over-long title was stopped by the title check
C14_Witness ==
    \E c \in Rejected :
        /\ validateUrl(addIn[c].url).isValid
        /\ addResult[c].data = Null
        /\ addResult[c].error = BookmarkError("VALIDATION_TOO_LONG",
                                              "Text is too long (max 200 characters)")
        /\ addLog[c] = <<>>

--------------------------------------------------------------------------
(* Claims about AuthForm's error state *)

\* C21: when the awaited signIn settles with an error, as a result or thrown,
\* the form's error state shows 'Invalid email or password' and loading is false
C21_FailureShowsMappedMessage ==
    [][\A outcome \in AuthFailures :
          AuthSettle(outcome) =>
              /\ Includes(error', AuthInvalidCredentials)
              /\ loading' = FALSE]_vars

\* the form shows the raw message of the error useAuth.signIn threw
C21_RawMessageShown ==
    /\ authPc = "idle"
    /\ ~loading
    /\ error = "Unexpected error: Invalid login credentials"
    /\ \E k \in Keys : authCalls[k] > 0

--------------------------------------------------------------------------
(* Claims about the RequestDeduplicator *)

\* C22: at most one request per key is in flight and it is the one the map
\* holds, the map holds nothing for a key with no request in flight; a call
\* invokes requestFn exactly when no request for its key was in flight, and
\* otherwise shares the promise, hence the outcome, of the one that was
C22_Deduplicates ==
    /\ \A k \in DedupeKeys :
           /\ Cardinality(InFlightFor(k)) <= 1
           /\ InFlightFor(k) = IF pendingRequests[k] = 0 THEN {} ELSE {pendingRequests[k]}
    /\ Cardinality({i \in DOMAIN dedupeCalls : dedupeCalls[i].invoked}) = Len(requests)
    /\ \A i \in DOMAIN dedupeCalls :
           LET call == dedupeCalls[i]
           IN /\ call.invoked = (call.inFlightBefore = {})
              /\ ~call.invoked => call.request \in call.inFlightBefore
              /\ call.invoked => \A j \in 1..(i - 1) : dedupeCalls[j].request # call.request
              /\ requests[call.request].key = call.key
              /\ SettledWith(call) \in {<<"pending", 0>>} \cup
                                        {<<o, call.request>> : o \in Outcomes}

\* a call joined a pending request and was rejected with that request's
\* error; a later call for the key invoked its requestFn again
C22_Witness ==
    \E i, j, l \in DOMAIN dedupeCalls :
        /\ i < j /\ j < l
        /\ dedupeCalls[i].key = dedupeCalls[j].key /\ dedupeCalls[j].key = dedupeCalls[l].key
        /\ dedupeCalls[i].invoked /\ ~dedupeCalls[j].invoked /\ dedupeCalls[l].invoked
        /\ dedupeCalls[j].request = dedupeCalls[i].request
        /\ dedupeCalls[l].request # dedupeCalls[i].request
        /\ SettledWith(dedupeCalls[j]) = <<"error", dedupeCalls[i].request>>
        /\ SettledWith(dedupeCalls[i]) = SettledWith(dedupeCalls[j])

--------------------------------------------------------------------------
(* Claims about the sentences generateSummary takes *)

\* the first k qualifying sentences, joined by ". "
RECURSIVE JoinFirst(_, _)
JoinFirst(S, k) ==
    IF k <= 1 THEN S[1]
    ELSE Norm(JoinFirst(S, k - 1) \o <<Run(".", 1), Run("s", 1)>> \o S[k])

\* the greedy number of sentences: the largest k of 1..3 such that every
\* sentence from the second to the k-th kept the joined length within 500
GreedyCount(S) ==
    Greatest({k \in 1..Least({maxSentences, Len(S)}) :
                 \A j \in 2..k : StrLen(JoinFirst(S, j)) <= SUMMARY_MAX_LENGTH})

\* C23: with at least one qualifying sentence the result is the first k
\* qualifying sentences joined by ". " and one ".", k the greedy count
C23_GreedyPrefix ==
    (SummaryReturned /\ Len(Qualifying) >= 1) =>
        sumResult.text = Norm(JoinFirst(Qualifying, GreedyCount(Qualifying))
                              \o <<Run(".", 1)>>)

\* the second of three sentences did not fit and the loop stopped, although
\* the third would have fitted after the first
C23_Witness ==
    /\ SummaryReturned
    /\ Len(Qualifying) = 3
    /\ GreedyCount(Qualifying) = 1
    /\ StrLen(Qualifying[1]) + 2 + StrLen(Qualifying[3]) <= SUMMARY_MAX_LENGTH
    /\ sumResult.text = Norm(Qualifying[1] \o <<Run(".", 1)>>)

--------------------------------------------------------------------------
(* Frame conditions of the RateLimiter *)

SubsequenceOf(a, b) == \E I \in SUBSET (1..Len(b)) : Pick(b, I) = a

\* C24: a recordAttempt(k) step appends now to k's sequence, whatever its
\* length, and removes nothing; an isAllowed(k) step only removes timestamps
\* of k, and answers true when the call before it was an isAllowed(k) that
\* answered true; neither changes another key's sequence; every stored
\* timestamp of a key was pushed by a recordAttempt for that key
C24_FrameConditions ==
    [][/\ (rlLast' # rlLast /\ rlLast'.op = "recordAttempt") =>
              /\ attempts'[rlLast'.key] = Append(attempts[rlLast'.key], now)
              /\ \A j \in Keys \ {rlLast'.key} : attempts'[j] = attempts[j]
       /\ (rlLast' # rlLast /\ rlLast'.op = "isAllowed") =>
              /\ SubsequenceOf(attempts'[rlLast'.key], attempts[rlLast'.key])
              /\ \A j \in Keys \ {rlLast'.key} : attempts'[j] = attempts[j]
              /\ (rlLast.op = "isAllowed" /\ rlLast.key = rlLast'.key /\ rlLast.ret)
                     => rlLast'.ret
       /\ \A k \in Keys : SubsequenceOf(attempts'[k], recorded'[k])]_vars

\* recordAttempt pushed onto a sequence that already held maxAttempts
\* timestamps, after isAllowed had purged an older one of the key
C24_Witness ==
    /\ rlLast.op = "recordAttempt"
    /\ Len(rlLast.pre) >= maxAttempts
    /\ attempts[rlLast.key] = Append(rlLast.pre, rlLast.at)
    /\ Len(recorded[rlLast.key]) > Len(attempts[rlLast.key])

--------------------------------------------------------------------------
(* Claims about concurrent addBookmark calls *)

\* C25: the table never holds two rows of the user with the same URL
C25_NoDuplicateRows == \A r1, r2 \in store : r1.url = r2.url => r1 = r2

\* both calls were given the same URL, both inserted a row and returned it
\* without an error
C25_BothInserted ==
    /\ \A c \in AddCalls :
           /\ addPc[c] = "done"
           /\ addResult[c].error = Null
           /\ addResult[c].data \in store
    /\ \E r1, r2 \in store : r1 # r2 /\ r1.url = r2.url

--------------------------------------------------------------------------
(* Claims about the list BookmarksList renders *)

\* the call returned its row without an error and the row is in the table
AddCompleted(c) ==
    /\ addPc[c] = "done"
    /\ addResult[c].error = Null
    /\ addResult[c].data \in store

DeleteCompleted == delPc = "done" /\ delResult.error = Null

\* C26: after an addBookmark completed successfully the list BookmarksList
\* holds eventually contains the new row (unless it was deleted again), and
\* after a deleteBookmark completed successfully it eventually holds no row
\* with the deleted id
C26_ListReflectsChange ==
    /\ \A c \in AddCalls :
           AddCompleted(c) ~>
               (addResult[c].data \in listBookmarks \/ addResult[c].data \notin store)
    /\ DeleteCompleted ~> (\A r \in listBookmarks : r.id # delId)

\* every call has returned, an added row and a delete completed, and the
\* list still holds what its fetch at mount returned
C26_StaleList ==
    /\ listPc = "mounted"
    /\ \A c \in AddCalls : addPc[c] = "done"
    /\ \E c \in AddCalls : AddCompleted(c) /\ addResult[c].data \notin listBookmarks
    /\ DeleteCompleted
    /\ \E r \in listBookmarks : r.id = delId /\ r \notin store

--------------------------------------------------------------------------
(* Claims about withRetry with maxRetries of 0 or less *)

\* the errors the invocations of fn threw
ThrownByFn == {fnLog[i].v : i \in {j \in 1..Len(fnLog) : ~fnLog[j].ok}}

\* C27: for every integer maxRetries a settled withRetry invoked fn at least
\* once, and what it rejected with is an error an invocation of fn threw
C27_InvokedAndRejectsWithThrown ==
    /\ retryPc \in {"resolved", "rejected"} => fnCalls >= 1
    /\ retryPc = "rejected" => retryResult.v \in ThrownByFn

\* withRetry(fn, m) with m <= 0 rejected with undefined and fn was never invoked
C27_RejectedWithUndefined ==
    /\ retryPc = "rejected"
    /\ maxRetries <= 0
    /\ fnCalls = 0
    /\ retryResult = [kind |-> "error", v |-> "undefined"]

--------------------------------------------------------------------------
(* Claims about the generate-summary handler's answers to bad input *)

\* the request carries a client input error: its body is not JSON, or it has
\* no bookmarkId, or one that is not a string
ClientInputError(req) ==
    /\ req.method = "POST"
    /\ \/ req.body.kind \in {"text", "null"}
       \/ req.body.bookmarkId.t # "string"

\* C28: a request rejected for a client input error (body not JSON, bookmarkId
\* missing or not a string) is answered with a 4xx status, never with 500
C28_ClientErrorsGet4xx ==
    (hPc = "done" /\ ClientInputError(hReq)) => hResp.status \in 400..499

\* a POST of a JSON object without bookmarkId was answered with 500
C28_MissingIdAnswered500 ==
    /\ hPc = "done"
    /\ hReq.method = "POST"
    /\ hReq.body = [kind |-> "object", bookmarkId |-> Undefined]
    /\ hResp.status = 500
    /\ hResp.body.error = "Valid bookmark ID is required"

--------------------------------------------------------------------------
(* Claims about the order of the generate-summary handler's steps *)

\* the number of times the request made the call
TimesCalled(call) == Cardinality({i \in 1..Len(hCalls) : hCalls[i] = call})

\* the url parses, its scheme is http or https and its host is none of the
\* localhost and private-network patterns
HttpAndNotPrivate(urlObj) ==
    /\ urlObj.ok
    /\ urlObj.protocol \in {"http:", "https:"}
    /\ ~IsPrivate(urlObj.hostname)

\* C29: the handler issues at most one update per request, and only after the
\* bookmark was read, its url passed validateUrl, the content fetch returned an
\* OK response with non-empty content and generateSummary returned; a request
\* that failed earlier issued no update; the content fetch is never called for
\* a url that fails validateUrl; the success response is sent only when the
\* update succeeded and carries the summary that was written
C29_UpdateAfterPipeline ==
    /\ TimesCalled("update") <= 1
    /\ TimesCalled("update") = 1 =>
           /\ hCalls = <<"select", "fetch", "update">>
           /\ Len(hOutcomes) >= 3
           /\ ~hOutcomes[1].error /\ hOutcomes[1].found
           /\ hOutcomes[2].kind = "response" /\ hOutcomes[2].ok
           /\ hOutcomes[3].kind = "object"
           /\ StrLen(Trim(ContentOf(hOutcomes[3]))) > 0
           /\ generateSummary(ContentOf(hOutcomes[3])) = Returned(hSummary)
    /\ TimesCalled("fetch") >= 1 =>
           /\ hOutcomes[1].url.t = "string"
           /\ HttpAndNotPrivate(URL(hOutcomes[1].url.v))
           /\ hBookmark = hOutcomes[1]
    /\ (hPc = "done" /\ Len(hOutcomes) < 4) => TimesCalled("update") = 0
    /\ (hPc = "done" /\ hReq.method = "POST" /\ hResp.status = 200) =>
           /\ TimesCalled("update") = 1
           /\ Len(hOutcomes) = 4
           /\ hOutcomes[4] = FALSE
           /\ hResp.body.summary = hSummary

\* the second request served went through the whole pipeline and was answered
\* with the summary written
C29_Witness ==
    /\ hServed = 2
    /\ hPc = "done"
    /\ hCalls = <<"select", "fetch", "update">>
    /\ hResp.status = 200
    /\ hResp.body.summary = hSummary
    /\ hSummary # <<>>

--------------------------------------------------------------------------
(* Claims about TTLCache *)

\* at time t the key has a set, not followed by a clear, that has not expired
Live(k, t) == cacheSets[k].done /\ t <= cacheSets[k].at + ttl

\* the call found the key's last set expired
ReadExpired(k, t) == cacheSets[k].done /\ ~Live(k, t)

\* C30: get(k) returns v iff the last set(k, .) not followed by a clear was
\* set(k, v) and now <= its time + ttl, and undefined otherwise; an entry read
\* by get or has after that instant is removed; has(k) is true exactly when
\* get(k) would return the entry; size() is the number of keys with an
\* unexpired entry
C30_CacheSemantics ==
    /\ cacheLast.op = "get" =>
           /\ cacheLast.ret = IF Live(cacheLast.key, cacheLast.at)
                               THEN cacheSets[cacheLast.key].value ELSE Undefined
           /\ ReadExpired(cacheLast.key, cacheLast.at) => ~cache[cacheLast.key].present
    /\ cacheLast.op = "has" =>
           /\ cacheLast.has = Live(cacheLast.key, cacheLast.at)
           /\ ReadExpired(cacheLast.key, cacheLast.at) => ~cache[cacheLast.key].present
    /\ cacheLast.op = "size" =>
           cacheLast.size = Cardinality({k \in CacheKeys : Live(k, cacheLast.at)})
    /\ cacheLast.op = "clear" => \A k \in CacheKeys : ~cache[k].present

\* get read an entry after its last instant: it returned undefined and the
\* entry is gone, the other key's entry is still there
C30_Witness ==
    /\ cacheLast.op = "get"
    /\ ttl >= 1
    /\ ReadExpired(cacheLast.key, cacheLast.at)
    /\ cacheLast.ret = Undefined
    /\ ~cache[cacheLast.key].present
    /\ \E k \in CacheKeys : cache[k].present /\ Live(k, now)

====
